---- MODULE Spec2Model ----
(***************************************************************************)
(* Step-sequencer playback engine of Echo Delirium:                        *)
(* src/src/components/Sequencer.tsx, BassTrack (src/unnamed/part_008) and  *)
(* src/src/components/PolyTrack.tsx.                                       *)
(*                                                                         *)
(* The component is event driven and single threaded: every action below   *)
(* is one event handler, one timer/transport callback or one continuation  *)
(* of an async function (the code between two awaits), run to completion   *)
(* together with the React render and effects it causes.                   *)
(***************************************************************************)
EXTENDS Integers, Sequences, FiniteSets, TLC

\* ------------------------------------------------------------- bounds
MaxTracks == 3
MaxLoads == 2
MaxEvents == 2
MaxClock == 1
MaxToggleStep == 1
MaxDegree == 1
MaxProgression == 5
FarStep == 5
ShortSteps == 4

\* ---------------------------------------------------------- constants
STEP_OPTIONS == {4, 8, 16, 32, 64}
InitialStepAmount == 16
InitialBpm == 120
\* a 16th note lasts a quarter of a beat: 60000 / 4 ms at 1 BPM
SixteenthAtOneBpm == 15000
\* (60 / bpm) / 2 seconds at 1 BPM, in ms
HalfBeatAtOneBpm == 30000

KickPath == "/samples/kick.mp3"
UserPaths == {"samples/u1/a.wav"}
NoPath == ""

GenIds == <<"track-0", "track-1", "track-2", "track-3">>
TrackIds == {"kick", "bass"} \cup {GenIds[n + 1] : n \in 0..MaxClock}

Kinds == {"filter", "delay", "reverb", "player"}
NoNode == 0
NoRef == ""
ScaleLen == 7
ProgressionLen == 4
TimeOffsetMs == 1
\* rampTo(value, 0.1)
RampMs == 100
\* retry.operation({retries: 3, ...}): retries after the first attempt
MaxRetries == 3
\* every attempt of every load builds nodes of its own
NodeIds == 1..(MaxLoads * (MaxRetries + 1))

NoProgress == [status |-> "none", attempt |-> 0, message |-> ""]
FailedProgress ==
    [status |-> "failed", attempt |-> 0,
     message |-> "Failed to load sample. Click to retry."]
LoadingProgress ==
    [status |-> "loading", attempt |-> 0, message |-> "Loading sample..."]
\* `Retrying (${currentAttempt}/3)...`, by attempt number
RetryMessage ==
    << "Loading sample...", "Retrying (2/3)...", "Retrying (3/3)...",
       "Retrying (4/3)..." >>

VARIABLES
    retryLoader,     \* which loadTrackSample the build has: TRUE for the retrying one
    stepAmount,      \* useState stepAmount
    bpm,             \* useState bpm
    mounted,         \* the Sequencer component is mounted
    isPlaying,       \* useState isPlaying
    isLoading,       \* useState isLoading
    currentStep,     \* useState currentStep
    currentStepRef,  \* useRef currentStepRef
    tracks,          \* useState tracks (tracksRef mirrors it after each render)
    initPc,          \* position of initializeSequencer
    playPc,          \* position of the startSequencer call in flight
    playClosure,     \* the tracks and stepAmount startSequencer closed over
    transport,       \* Tone.Transport.state
    callbacks,       \* callbacks registered by Tone.Transport.scheduleRepeat
    eventCount,      \* number of transport event ids handed out so far
    repeatId,        \* useRef repeatId (0 is null)
    loads,           \* every loadTrackSample call so far, by call number
    players, filters, delays, reverbs,   \* the four registries, by track id
    created,         \* audio nodes constructed so far: <<load, kind>>
    disposed,        \* audio nodes on which dispose() was called
    loaded,          \* players whose buffer has loaded (player.loaded)
    started,         \* players whose state is 'started'
    loadingSamples,  \* useState loadingSamples: track ids mapped to true
    clock,           \* Date.now()
    bassInst,        \* the mounted BassTrack components, by React key (track id)
    polyInst,        \* the mounted PolyTrack components, by React key (track id)
    bassRef,         \* useRef bassRef: the BassTrack handle it holds (NoRef is null)
    stored,          \* localStorage: bassCurrentPattern and polyCurrentPattern
    synthLog,        \* the synth calls of the last tick, in call order
    lastActive,      \* positions (in tracks) of the active tracks of the last tick
    lastDispatch,    \* the trigger calls the last tick made
    delayTime,       \* delayTime of each FeedbackDelay built, in ms, by node
    staleTracks,     \* the tracks of the last render while a newer render is due
    paramLog,        \* the audio parameter writes of the handler that ran last
    urlCall,         \* the getSampleUrl call in flight, or its outcome
    lastOp           \* the handler that ran last

vars == <<retryLoader, mounted, stepAmount, bpm, isPlaying, isLoading, currentStep, currentStepRef, tracks,
          initPc, playPc, playClosure, transport, callbacks, eventCount, repeatId,
          loads, players, filters, delays, reverbs, created, disposed, loaded,
          started, loadingSamples, clock, bassInst, polyInst, bassRef, stored,
          synthLog, lastActive, lastDispatch, delayTime,
          staleTracks, paramLog, urlCall, lastOp>>

seqVars == <<stepAmount, isPlaying, isLoading, currentStep, currentStepRef>>
transportVars == <<transport, callbacks, eventCount, repeatId>>
registryVars == <<players, filters, delays, reverbs>>
nodeVars == <<created, disposed, loaded, started>>
tickVars == <<lastActive, lastDispatch, synthLog>>
synthVars == <<bassInst, polyInst, bassRef, stored>>

\* ------------------------------------------------------------ helpers
Min(a, b) == IF a < b THEN a ELSE b

Falses(n) == [k \in 1..n |-> FALSE]

\* tracksRef.current = tracks, refreshed by the effect after every render
tracksRef == tracks

\* effects of a new track: the filter wide open, no resonance boost, no sends;
\* the sends are in hundredths
NoEffects == [filter |-> 20000, resonance |-> 1, delay |-> 0, reverb |-> 0]

NewTrack(id, type, path, steps) ==
    [id |-> id, type |-> type, pattern |-> Falses(steps), samplePath |-> path,
     volume |-> 0, effects |-> NoEffects,
     muted |-> FALSE, soloed |-> FALSE, gated |-> FALSE,
     loadError |-> "", loadProgress |-> NoProgress]

\* the defaultTracks literal of initializeSequencer, built from the first render
DefaultTracks ==
    << NewTrack("kick", "drum", KickPath, InitialStepAmount),
       NewTrack("bass", "bass", NoPath, InitialStepAmount) >>

\* the loadProgress an attempt writes before its first await
Progress(attempt) ==
    IF retryLoader
    THEN [status |-> IF attempt > 1 THEN "retrying" ELSE "loading",
          attempt |-> attempt,
          message |-> IF attempt > 1 THEN RetryMessage[attempt]
                      ELSE "Loading sample..."]
    ELSE LoadingProgress

SetLoading(t) == [t EXCEPT !.loadProgress = Progress(1)]
SetFailed(t) ==
    [t EXCEPT !.loadError = "Failed to load sample", !.loadProgress = FailedProgress]
SetLoaded(t) == [t EXCEPT !.loadError = "", !.loadProgress = NoProgress]

\* mutant of ResizePattern: the pattern is reallocated empty at the new length
ResizePatternFresh(p, steps) == Falses(steps)

\* pattern.length > steps ? pattern.slice(0, steps) : [...pattern, ...fill(false)]
ResizePattern(p, steps) ==
    IF Len(p) > steps THEN SubSeq(p, 1, steps) ELSE p \o Falses(steps - Len(p))

\* pattern[step] read as a JavaScript truthy value: undefined past the end
PatternAt(p, step) == step + 1 \in DOMAIN p /\ p[step + 1]

\* mutants of ActiveTracks: a soloed track sounds although muted; solo is ignored
ActiveTracksSoloWins(ts) ==
    {i \in 1..Len(ts) :
        IF \E j \in 1..Len(ts) : ts[j].soloed THEN ts[i].soloed ELSE ~ts[i].muted}

ActiveTracksNoSolo(ts) == {i \in 1..Len(ts) : ~ts[i].muted}

\* mutant of ActiveTracks: solo counts only while a soloed track can sound
ActiveTracksFallback(ts) ==
    IF \E j \in 1..Len(ts) : ts[j].soloed /\ ~ts[j].muted
    THEN {i \in 1..Len(ts) : ts[i].soloed /\ ~ts[i].muted}
    ELSE {i \in 1..Len(ts) : ~ts[i].muted}

\* the activeTracks filter of the tick handler, as positions in ts
ActiveTracks(ts) ==
    {i \in 1..Len(ts) :
        /\ ~ts[i].muted
        /\ (~(\E j \in 1..Len(ts) : ts[j].soloed) \/ ts[i].soloed)}

\* every render has been made: the handlers close over the current tracks
NoStale == [due |-> FALSE, tracks |-> << >>]

\* a handler other than the tick ran: the record of the last tick is dropped,
\* and the render it asks for is made before the next handler runs
Did(op) ==
    /\ lastOp' = op
    /\ UNCHANGED retryLoader
    /\ lastActive' = {}
    /\ lastDispatch' = {}
    /\ synthLog' = << >>
    /\ paramLog' = {}
    /\ staleTracks' = NoStale

\* ------------------------------------- BassTrack / PolyTrack components
\* a pattern row has one cell per note of the scale
EmptyRows(steps) == [k \in 1..steps |-> Falses(ScaleLen)]

FitRow(row, n) ==
    IF Len(row) = n THEN row ELSE [j \in 1..n |-> j <= Len(row) /\ row[j]]

\* the resize effect on [stepAmount, scale] of BassTrack and PolyTrack
ResizeRows(p, steps) ==
    [k \in 1..steps |-> IF k <= Len(p) THEN FitRow(p[k], ScaleLen)
                        ELSE Falses(ScaleLen)]

\* useState initializer of pattern: the stored pattern if its length matches
InitialRows(saved, steps) ==
    IF Len(saved) = steps THEN saved ELSE EmptyRows(steps)

Unmounted ==
    [mounted |-> FALSE, pattern |-> << >>, localStepAmount |-> 0, held |-> 0,
     voice |-> 0]

\* the track list is rendered only when isLoading is false
Shown(ts, loading, type) ==
    IF loading THEN {}
    ELSE {ts[i].id : i \in {j \in 1..Len(ts) : ts[j].type = type}}

\* the id among ids that is rendered last
LastOf(ts, ids) ==
    LET pos == {i \in 1..Len(ts) : ts[i].id \in ids}
    IN ts[CHOOSE i \in pos : \A j \in pos : j <= i].id

Mounted(inst) == {id \in TrackIds : inst[id].mounted}

\* the components after a render: unmounted ones lose their state and synth,
\* new ones start from localStorage, and all resize when stepAmount changed
Instances(inst, shown, saved, steps, resized) ==
    [id \in TrackIds |->
        IF id \notin shown THEN Unmounted
        ELSE IF inst[id].mounted
             THEN IF resized
                  THEN [inst[id] EXCEPT !.pattern = ResizeRows(@, steps)]
                  ELSE inst[id]
             ELSE [mounted |-> TRUE,
                   pattern |-> ResizeRows(InitialRows(saved, steps), steps),
                   localStepAmount |-> steps,
                   held |-> 0, voice |-> 0]]

\* the effect localStorage.setItem(key, pattern) of every component whose
\* pattern state was set in this render; the last one rendered writes last
Saved(saved, ts, inst, writers) ==
    IF writers = {} THEN saved ELSE inst[LastOf(ts, writers)].pattern

\* the render after tracks, isLoading or stepAmount were set; a component that
\* was unmounted renders no more
Render(ts, loading, steps) ==
    IF ~mounted THEN UNCHANGED <<bassInst, polyInst, bassRef, stored>> ELSE
    LET resized == steps # stepAmount
        bShown == Shown(ts, loading, "bass")
        pShown == Shown(ts, loading, "poly")
        bNew == bShown \ Mounted(bassInst)
        pNew == pShown \ Mounted(polyInst)
        bInst == Instances(bassInst, bShown, stored.bass, steps, resized)
        pInst == Instances(polyInst, pShown, stored.poly, steps, resized)
    IN /\ bassInst' = bInst
       /\ polyInst' = pInst
       /\ bassRef' = IF bNew # {} THEN LastOf(ts, bNew)
                     ELSE IF Mounted(bassInst) \ bShown # {} THEN NoRef
                     ELSE bassRef
       /\ stored' =
            [bass |-> Saved(stored.bass, ts, bInst,
                            IF resized THEN bShown ELSE bNew),
             poly |-> Saved(stored.poly, ts, pInst,
                            IF resized THEN pShown ELSE pNew)]

\* polyRefs.current: the inline ref callback keeps exactly the mounted PolyTracks
polyRefs == Mounted(polyInst)

\* what a startSequencer call in flight reads of the tracks it closed over
Captured(ts) ==
    [i \in 1..Len(ts) |->
        [id |-> ts[i].id, type |-> ts[i].type, samplePath |-> ts[i].samplePath,
         effects |-> ts[i].effects]]

\* no getSampleUrl call was made
NoUrlCall == [pc |-> "idle", path |-> << >>, attempt |-> 0, storageCalls |-> 0,
              value |-> << >>]

\* no startSequencer call is in flight
NoClosure == [tracks |-> << >>, stepAmount |-> InitialStepAmount, bpm |-> InitialBpm]

\* ------------------------------------------------------------- Init
Mount(retrying) ==
    /\ retryLoader = retrying
    /\ stepAmount = InitialStepAmount
    /\ bpm = InitialBpm
    /\ mounted = TRUE
    /\ isPlaying = FALSE
    /\ isLoading = TRUE
    /\ currentStep = 0
    /\ currentStepRef = 0
    /\ tracks = << >>
    /\ initPc = "start"
    /\ playPc = "idle"
    /\ playClosure = NoClosure
    /\ transport = "stopped"
    /\ callbacks = {}
    /\ eventCount = 0
    /\ repeatId = 0
    /\ loads = << >>
    /\ players = [id \in TrackIds |-> NoNode]
    /\ filters = [id \in TrackIds |-> NoNode]
    /\ delays = [id \in TrackIds |-> NoNode]
    /\ reverbs = [id \in TrackIds |-> NoNode]
    /\ created = {}
    /\ disposed = {}
    /\ loaded = {}
    /\ started = {}
    /\ loadingSamples = {}
    /\ clock = 0
    /\ bassInst = [id \in TrackIds |-> Unmounted]
    /\ polyInst = [id \in TrackIds |-> Unmounted]
    /\ bassRef = NoRef
    /\ stored = [bass |-> << >>, poly |-> << >>]
    /\ synthLog = << >>
    /\ lastActive = {}
    /\ lastDispatch = {}
    /\ delayTime = [n \in NodeIds |-> 0]
    /\ paramLog = {}
    /\ staleTracks = NoStale
    /\ urlCall = NoUrlCall
    /\ lastOp = "init"

\* the component as mounted, with the first loadTrackSample of Sequencer.tsx
Init == Mount(FALSE)

\* the component as mounted, with the retrying loadTrackSample
InitRetry == Mount(TRUE)

\* ------------------------------------------------------ sample loading
\* loadTrackSample returns at once for a track without samplePath or a synth track
NeedsLoad(t) == t.samplePath # NoPath /\ t.type = "drum"

\* NaN, encoded as an integer that no text of BpmTexts denotes
NaN == 0 - 2147483647

\* calculateDelayTime(bpm), in ms
BaseDelayMs(b) == IF b = NaN THEN NaN ELSE HalfBeatAtOneBpm \div b

\* calculateDelayTime(bpm) * send, the send in hundredths
DelayMs(b, send) == (BaseDelayMs(b) * send) \div 100

\* a call of loadTrackSample(t) made from a render whose bpm was b
NewLoad(t, owner, b) ==
    [tid |-> t.id, path |-> t.samplePath, owner |-> owner, pc |-> "fetch",
     attempt |-> 1, send |-> t.effects.delay, bpm |-> b]

\* the audio nodes built by the current attempt of load l
Node(l) == (l - 1) * (MaxRetries + 1) + loads[l].attempt

\* loadTrackSample(t) for each t of ts, up to its first await: the status becomes
\* 'loading' and the fetch (or getSampleUrl) is in flight
BeginLoads(ts, owner, b) ==
    LET sel == SelectSeq(ts, NeedsLoad) IN
    /\ Len(loads) + Len(sel) <= MaxLoads
    /\ loads' = loads \o [i \in 1..Len(sel) |-> NewLoad(sel[i], owner, b)]
    /\ tracks' = IF ~mounted THEN tracks ELSE [i \in 1..Len(tracks) |->
                    IF \E k \in 1..Len(sel) : sel[k].id = tracks[i].id
                    THEN SetLoading(tracks[i]) ELSE tracks[i]]

\* the promise of load l has resolved: the first loadTrackSample resolves when its
\* body ends, the retrying one in the player's onload
Resolved(l) ==
    IF retryLoader THEN loads[l].pc = "ready"
    ELSE loads[l].pc \in {"pending", "ready", "failed", "error"}

\* await Promise.all(...) of the caller `owner` goes on
Settled(owner) == \A l \in 1..Len(loads) : loads[l].owner = owner => Resolved(l)

\* the caller `owner` awaits its loads no longer
Disown(ls, owner) ==
    [l \in 1..Len(ls) |->
        IF ls[l].owner = owner THEN [ls[l] EXCEPT !.owner = "none"] ELSE ls[l]]

\* loadTrackSample's promise resolves; handleSelectSample, when it is the caller,
\* runs its finally block: setLoadingSamples(prev => ({...prev, [trackId]: false}))
AfterAwait(l) ==
    IF loads[l].owner = "select" THEN loadingSamples \ {loads[l].tid}
    ELSE loadingSamples

\* operation.retry(err) returns true: a timeout is left, the next attempt is timed
Backoff(l) ==
    /\ loads' = [loads EXCEPT ![l].pc = "backoff"]
    /\ UNCHANGED <<seqVars, tracks, initPc, playPc, playClosure, transportVars,
                   registryVars, nodeVars, loadingSamples, clock, synthVars>>

\* ------------------------------------------------------ stopSequencer
\* players.current.forEach(player => player.state === 'started' && player.stop())
RegisteredPlayers == {players[id] : id \in TrackIds} \ {NoNode}

\* stop() of BassTrack and of PolyTrack
StopInst(inst) ==
    IF inst.mounted /\ inst.held # 0
    THEN [inst EXCEPT !.held = 0, !.voice = 0] ELSE inst

\* if (bassRef.current) bassRef.current.stop(); polyRefs.current.forEach(stop)
StopSynths ==
    /\ bassInst' = [id \in TrackIds |->
                      IF id = bassRef THEN StopInst(bassInst[id]) ELSE bassInst[id]]
    /\ polyInst' = [id \in TrackIds |->
                      IF id \in polyRefs THEN StopInst(polyInst[id]) ELSE polyInst[id]]
    /\ UNCHANGED <<bassRef, stored>>

\* mutant of StopSequencer: the playing flag is flipped, not cleared
StopSequencerToggles ==
    /\ isPlaying' = ~isPlaying
    /\ transport' = "stopped"
    /\ callbacks' = {c \in callbacks : c.id # repeatId}
    /\ repeatId' = 0
    /\ currentStep' = 0
    /\ currentStepRef' = 0
    /\ started' = started \ RegisteredPlayers
    /\ UNCHANGED eventCount

\* stopSequencer, up to the synths
StopSequencer ==
    /\ isPlaying' = FALSE
    /\ transport' = "stopped"
    /\ callbacks' = {c \in callbacks : c.id # repeatId}
    /\ repeatId' = 0
    /\ currentStep' = 0
    /\ currentStepRef' = 0
    /\ started' = started \ RegisteredPlayers
    /\ UNCHANGED eventCount

\* --------------------------------------------- sample loading, continued
\* reject(operation.mainError()): the promise of the retrying loadTrackSample
\* rejects past its own catch block, and the caller's catch and finally run
Reject(l) ==
    LET o == loads[l].owner
        id == loads[l].tid
    IN
    /\ loads' = [(IF o \in {"play", "init"} THEN Disown(loads, o) ELSE loads)
                    EXCEPT ![l].pc = "rejected", ![l].owner = "none"]
    /\ CASE o = "play" ->
              /\ StopSequencer
              /\ isLoading' = FALSE
              /\ Render(tracks, FALSE, stepAmount)
              /\ playPc' = "idle"
              /\ playClosure' = NoClosure
              /\ UNCHANGED <<stepAmount, tracks, initPc, loadingSamples>>
         [] o = "init" ->
              /\ initPc' = "failed"
              /\ UNCHANGED <<seqVars, tracks, playPc, playClosure, transportVars,
                             started, loadingSamples, synthVars>>
         [] o = "select" ->
              /\ tracks' = IF ~mounted THEN tracks ELSE [j \in 1..Len(tracks) |->
                               IF tracks[j].id = id THEN SetFailed(tracks[j])
                               ELSE tracks[j]]
              /\ loadingSamples' = loadingSamples \ {id}
              /\ UNCHANGED <<seqVars, initPc, playPc, playClosure, transportVars,
                             started, synthVars>>
         [] OTHER ->
              UNCHANGED <<seqVars, tracks, initPc, playPc, playClosure,
                          transportVars, started, loadingSamples, synthVars>>
    /\ UNCHANGED <<registryVars, created, disposed, loaded, clock>>

\* if (operation.retry(error)) return; reject(operation.mainError())
RetryOrReject(l) ==
    IF loads[l].attempt <= MaxRetries THEN Backoff(l) ELSE Reject(l)

\* the fetch, the URL lookup or the decoding failed: the catch block of
\* loadTrackSample, or of the attempt
LoadFails(l) ==
    /\ l \in 1..Len(loads) /\ loads[l].pc = "fetch"
    /\ IF retryLoader
       THEN RetryOrReject(l)
       ELSE /\ loads' = [loads EXCEPT ![l].pc = "failed"]
            /\ tracks' = IF ~mounted THEN tracks ELSE [j \in 1..Len(tracks) |->
                             IF tracks[j].id = loads[l].tid THEN SetFailed(tracks[j])
                             ELSE tracks[j]]
            /\ loadingSamples' = AfterAwait(l)
            /\ UNCHANGED <<seqVars, initPc, playPc, playClosure, transportVars,
                           registryVars, nodeVars, clock, synthVars>>
    /\ Did("loadFails")
    /\ UNCHANGED <<bpm, mounted, delayTime, urlCall>>

\* the timer of operation.retry fires: the next attempt runs up to its first await
RetryTimer(l) ==
    /\ l \in 1..Len(loads) /\ loads[l].pc = "backoff"
    /\ loads' = [loads EXCEPT ![l].pc = "fetch", ![l].attempt = @ + 1]
    /\ tracks' = IF ~mounted THEN tracks ELSE [j \in 1..Len(tracks) |->
                    IF tracks[j].id = loads[l].tid
                    THEN [tracks[j] EXCEPT !.loadProgress =
                                              Progress(loads[l].attempt + 1)]
                    ELSE tracks[j]]
    /\ Did("retryTimer")
    /\ UNCHANGED <<bpm, mounted, delayTime, urlCall>>
    /\ UNCHANGED <<seqVars, initPc, playPc, playClosure, transportVars, registryVars,
                   nodeVars, loadingSamples, clock, synthVars>>

\* the URL is known: filter, delay, reverb and player are built and registered
LoadCreates(l) ==
    /\ l \in 1..Len(loads) /\ loads[l].pc = "fetch"
    /\ loads' = [loads EXCEPT ![l].pc = "pending"]
    /\ created' = created \cup {<<Node(l), k>> : k \in Kinds}
    /\ filters' = [filters EXCEPT ![loads[l].tid] = Node(l)]
    /\ delays' = [delays EXCEPT ![loads[l].tid] = Node(l)]
    /\ reverbs' = [reverbs EXCEPT ![loads[l].tid] = Node(l)]
    /\ players' = [players EXCEPT ![loads[l].tid] = Node(l)]
    /\ loadingSamples' = IF retryLoader THEN loadingSamples ELSE AfterAwait(l)
    /\ delayTime' = [delayTime EXCEPT ![Node(l)] = DelayMs(loads[l].bpm, loads[l].send)]
    /\ Did("loadCreates")
    /\ UNCHANGED <<bpm, mounted, urlCall>>
    /\ UNCHANGED <<seqVars, tracks, initPc, playPc, playClosure, transportVars,
                   disposed, loaded, started, clock, synthVars>>

\* the player's onload callback
PlayerOnload(l) ==
    /\ l \in 1..Len(loads) /\ loads[l].pc = "pending"
    /\ loads' = [loads EXCEPT ![l].pc = "ready"]
    /\ loaded' = loaded \cup {Node(l)}
    /\ tracks' = IF ~mounted THEN tracks ELSE [j \in 1..Len(tracks) |->
                     IF tracks[j].id = loads[l].tid THEN SetLoaded(tracks[j])
                     ELSE tracks[j]]
    /\ loadingSamples' = IF retryLoader THEN AfterAwait(l) ELSE loadingSamples
    /\ Did("onload")
    /\ UNCHANGED <<bpm, mounted, delayTime, urlCall>>
    /\ UNCHANGED <<seqVars, initPc, playPc, playClosure, transportVars, registryVars,
                   created, disposed, started, clock, synthVars>>

\* the player's onload callback, with the render it asks for still due when the
\* next event is handled: setTracks queues the update, React renders later
PlayerOnloadRenderDue(l) ==
    /\ mounted /\ ~staleTracks.due
    /\ l \in 1..Len(loads) /\ loads[l].pc = "pending"
    /\ loads' = [loads EXCEPT ![l].pc = "ready"]
    /\ loaded' = loaded \cup {Node(l)}
    /\ tracks' = [j \in 1..Len(tracks) |->
                     IF tracks[j].id = loads[l].tid THEN SetLoaded(tracks[j])
                     ELSE tracks[j]]
    /\ staleTracks' = [due |-> TRUE, tracks |-> tracks]
    /\ loadingSamples' = IF retryLoader THEN AfterAwait(l) ELSE loadingSamples
    /\ lastOp' = "onload"
    /\ lastActive' = {}
    /\ lastDispatch' = {}
    /\ synthLog' = << >>
    /\ paramLog' = {}
    /\ UNCHANGED <<retryLoader, bpm, mounted, delayTime, urlCall>>
    /\ UNCHANGED <<seqVars, initPc, playPc, playClosure, transportVars, registryVars,
                   created, disposed, started, clock, synthVars>>

\* the render that was due is made
RenderDue ==
    /\ staleTracks.due
    /\ Did("render")
    /\ UNCHANGED <<bpm, mounted, delayTime, urlCall>>
    /\ UNCHANGED <<seqVars, tracks, initPc, playPc, playClosure, transportVars, loads,
                   registryVars, nodeVars, loadingSamples, clock, synthVars>>

\* the player's onerror callback
PlayerOnerror(l) ==
    /\ l \in 1..Len(loads) /\ loads[l].pc = "pending"
    /\ IF retryLoader
       THEN RetryOrReject(l)
       ELSE /\ loads' = [loads EXCEPT ![l].pc = "error"]
            /\ tracks' = IF ~mounted THEN tracks ELSE [j \in 1..Len(tracks) |->
                             IF tracks[j].id = loads[l].tid THEN SetFailed(tracks[j])
                             ELSE tracks[j]]
            /\ UNCHANGED <<seqVars, initPc, playPc, playClosure, transportVars,
                           registryVars, nodeVars, loadingSamples, clock, synthVars>>
    /\ Did("onerror")
    /\ UNCHANGED <<bpm, mounted, delayTime, urlCall>>

\* ----------------------------------------------------- initialization
\* Tone.start, Tone.loaded or loadUserContent rejects: the catch block
InitFails ==
    /\ initPc = "start"
    /\ initPc' = "failed"
    /\ Did("initFails")
    /\ UNCHANGED <<bpm, mounted, delayTime, urlCall>>
    /\ UNCHANGED <<seqVars, tracks, playPc, playClosure, transportVars, loads,
                   registryVars, nodeVars, loadingSamples, clock, synthVars>>

\* up to await Promise.all(defaultTracks.map(loadTrackSample))
InitLoads ==
    /\ initPc = "start"
    /\ initPc' = "loads"
    /\ BeginLoads(DefaultTracks, "init", InitialBpm)
    /\ Did("initLoads")
    /\ UNCHANGED <<bpm, mounted, delayTime, urlCall>>
    /\ UNCHANGED <<seqVars, playPc, playClosure, transportVars, registryVars,
                   nodeVars, loadingSamples, clock, synthVars>>

\* setTracks(defaultTracks); setIsLoading(false)
InitDone ==
    /\ initPc = "loads" /\ Settled("init")
    /\ initPc' = "done"
    /\ tracks' = IF ~mounted THEN tracks ELSE DefaultTracks
    /\ isLoading' = FALSE
    /\ Render(tracks', isLoading', stepAmount)
    /\ loads' = Disown(loads, "init")
    /\ Did("initDone")
    /\ UNCHANGED <<bpm, mounted, delayTime, urlCall>>
    /\ UNCHANGED <<stepAmount, isPlaying, currentStep, currentStepRef, playPc,
                   playClosure, transportVars, registryVars, nodeVars,
                   loadingSamples, clock>>

\* ----------------------------------------------------- startSequencer

\* the Play/Stop button (disabled while isLoading), up to await Tone.start()
StartSequencer ==
    /\ mounted /\ ~isLoading
    /\ IF isPlaying
       THEN /\ StopSequencer
            /\ StopSynths
            /\ Did("stop")
            /\ UNCHANGED <<bpm, mounted, delayTime, urlCall>>
            /\ UNCHANGED <<stepAmount, isLoading, playPc, playClosure>>
       ELSE /\ eventCount < MaxEvents
            /\ isLoading' = TRUE
            /\ playPc' = "resume"
            /\ playClosure' = [tracks |-> Captured(tracks), stepAmount |-> stepAmount,
                                bpm |-> bpm]
            /\ Render(tracks, TRUE, stepAmount)
            /\ Did("play")
            /\ UNCHANGED <<bpm, mounted, delayTime, urlCall>>
            /\ UNCHANGED <<stepAmount, isPlaying, currentStep, currentStepRef,
                           transportVars, started>>
    /\ UNCHANGED <<tracks, initPc, loads, registryVars, created, disposed, loaded,
                   loadingSamples, clock>>

\* mutant of PlayResumeFails: the finally block is missing, isLoading stays set
PlayResumeFailsStuck ==
    /\ playPc = "resume"
    /\ StopSequencer
    /\ playPc' = "idle"
    /\ Did("playFails")
    /\ playClosure' = NoClosure
    /\ UNCHANGED <<stepAmount, bpm, mounted, delayTime, urlCall, isLoading, tracks, initPc, loads, registryVars,
                   created, disposed, loaded, loadingSamples, clock, synthVars>>

\* Tone.start() rejects: catch calls stopSequencer, finally clears isLoading.
\* No BassTrack or PolyTrack is mounted while isLoading, so stopSequencer finds
\* none to stop; the render that follows mounts them.
PlayResumeFails ==
    /\ playPc = "resume"
    /\ StopSequencer
    /\ isLoading' = FALSE
    /\ Render(tracks, FALSE, stepAmount)
    /\ playPc' = "idle"
    /\ Did("playFails")
    /\ UNCHANGED <<bpm, mounted, delayTime, urlCall>>
    /\ playClosure' = NoClosure
    /\ UNCHANGED <<stepAmount, tracks, initPc, loads, registryVars,
                   created, disposed, loaded, loadingSamples, clock>>

\* the drum tracks of the closed-over tracks that have a sample and no player
PlayLoadTracks ==
    SelectSeq(playClosure.tracks,
              LAMBDA t : t.type = "drum" /\ t.samplePath # NoPath
                         /\ players[t.id] = NoNode)

\* Tone.start() resolves: the loads start, up to await Promise.all(loadPromises)
PlayLoads ==
    /\ playPc = "resume"
    /\ playPc' = "loads"
    /\ BeginLoads(PlayLoadTracks, "play", playClosure.bpm)
    /\ Did("playLoads")
    /\ UNCHANGED <<bpm, mounted, delayTime, urlCall>>
    /\ UNCHANGED <<seqVars, initPc, playClosure, transportVars, registryVars,
                   nodeVars, loadingSamples, clock, synthVars>>

\* the loads have settled: the repeat callback is scheduled, the transport started
PlayBegin ==
    /\ playPc = "loads" /\ Settled("play")
    /\ playPc' = "idle"
    /\ isPlaying' = TRUE
    /\ currentStep' = 0
    /\ currentStepRef' = 0
    /\ eventCount' = eventCount + 1
    /\ callbacks' = callbacks \cup
           {[id |-> eventCount + 1, stepAmount |-> playClosure.stepAmount]}
    /\ repeatId' = eventCount + 1
    /\ transport' = "started"
    /\ isLoading' = FALSE
    /\ Render(tracks, FALSE, stepAmount)
    /\ Did("playBegin")
    /\ UNCHANGED <<bpm, mounted, delayTime, urlCall>>
    /\ playClosure' = NoClosure
    /\ loads' = Disown(loads, "play")
    /\ UNCHANGED <<stepAmount, tracks, initPc, registryVars,
                   nodeVars, loadingSamples, clock>>

\* ------------------------------------------------------------ the tick
\* mutant of DrumPlayer: the trigger does not ask whether the buffer has loaded
DrumPlayerUnloaded(t, step) ==
    IF /\ t.type = "drum"
       /\ PatternAt(t.pattern, step)
       /\ players[t.id] # NoNode
    THEN players[t.id] ELSE NoNode

\* the drum branch of repeat: the player a trigger reaches, NoNode if none
DrumPlayer(t, step) ==
    IF /\ t.type = "drum"
       /\ PatternAt(t.pattern, step)
       /\ players[t.id] # NoNode
       /\ players[t.id] \in loaded
    THEN players[t.id] ELSE NoNode

\* Tone.Transport.bpm.value = bpm, written by the effect after every render
TransportBpm == bpm

\* mutant of SixteenthMs: the step duration of the initial tempo
SixteenthAtInitialBpm(b) == SixteenthAtOneBpm \div InitialBpm

\* Tone.Time('16n').toSeconds() at tempo b, in milliseconds
SixteenthMs(b) == SixteenthAtOneBpm \div b

\* player.start(time).stop(time + stepDuration) when gated, else player.start(time);
\* times in milliseconds after the tick's time
DrumCalls(t) ==
    IF t.gated
    THEN << [op |-> "start", at |-> 0],
            [op |-> "stop", at |-> SixteenthMs(TransportBpm)] >>
    ELSE << [op |-> "start", at |-> 0] >>

\* mutant of FirstActive: the highest active degree of the row
LastActive(row) ==
    IF \E j \in 1..Len(row) : row[j]
    THEN CHOOSE j \in 1..Len(row) : row[j] /\ \A k \in (j + 1)..Len(row) : ~row[k]
    ELSE 0

\* the first active degree of a Bass row (activeNotes[0]), 0 if none
FirstActive(row) ==
    IF \E j \in 1..Len(row) : row[j]
    THEN CHOOSE j \in 1..Len(row) : row[j] /\ \A k \in 1..(j - 1) : ~row[k]
    ELSE 0

\* playStep returns at once without a synth or with step past the pattern
Playable(inst, step) == inst.mounted /\ step < Len(inst.pattern)

\* the note BassTrack.playStep(step) attacks: the degree's index, 0 for none
BassNote(inst, step) == FirstActive(inst.pattern[step + 1])

\* mutant of ChordIndex: the chord advances on every step
ChordIndexPerStep(step, n) == step % n

\* Math.floor(step / 4) % params.chordProgression.length
ChordIndex(step, n) == (step \div 4) % n

\* mutant of PolyNote: the chord is attacked whatever the row holds
PolyNoteAnyRow(inst, step) == ChordIndex(step, ProgressionLen) + 1

\* the chord PolyTrack.playStep(step) attacks: its index in the progression
\* plus one, 0 when no cell of the row is active
PolyNote(inst, step) ==
    IF \E j \in 1..Len(inst.pattern[step + 1]) : inst.pattern[step + 1][j]
    THEN ChordIndex(step, ProgressionLen) + 1 ELSE 0

\* playStep on an instance: release what is held, attack the note if there is one
PlayStepInst(inst, note) ==
    [inst EXCEPT !.held = note,
                 !.voice = IF inst.held # 0 \/ note # 0 THEN note ELSE @]

\* the synth calls of one playStep, scheduled at time + timeOffset
CallLog(kind, id, held, note) ==
    (IF held # 0
     THEN << [kind |-> kind, id |-> id, op |-> "release", note |-> held,
              at |-> TimeOffsetMs] >>
     ELSE << >>)
    \o (IF note # 0
        THEN << [kind |-> kind, id |-> id, op |-> "attack", note |-> note,
                 at |-> TimeOffsetMs] >>
        ELSE << >>)

\* the instance the tick reaches for the track at position i, NoRef if none
Target(ts, i) ==
    IF ts[i].type = "bass" THEN bassRef
    ELSE IF ts[i].type = "poly" /\ ts[i].id \in polyRefs THEN ts[i].id
    ELSE NoRef

TargetInst(ts, i) ==
    IF ts[i].type = "bass" THEN bassInst[Target(ts, i)] ELSE polyInst[Target(ts, i)]

\* positions of the active tracks whose playStep call gets past its guard
SynthCalls(ts, act, step) ==
    {i \in act : Target(ts, i) # NoRef /\ Playable(TargetInst(ts, i), step)}

NoteFor(ts, i, step) ==
    IF ts[i].type = "bass" THEN BassNote(TargetInst(ts, i), step)
    ELSE PolyNote(TargetInst(ts, i), step)

\* the calls of activeTracks.forEach in order; a second call that reaches the
\* same instance in the tick finds the note of the first one held
RECURSIVE TickLog(_, _, _, _)
TickLog(ts, calls, step, n) ==
    IF n = 0 THEN << >>
    ELSE TickLog(ts, calls, step, n - 1) \o
         (IF n \notin calls THEN << >>
          ELSE LET again == \E j \in calls :
                              /\ j < n /\ ts[j].type = ts[n].type
                              /\ Target(ts, j) = Target(ts, n)
                   note == NoteFor(ts, n, step)
               IN CallLog(ts[n].type, Target(ts, n),
                          IF again THEN note ELSE TargetInst(ts, n).held, note))

\* repeat(time), run by the transport for a scheduled callback c
Tick(c) ==
    /\ transport = "started" /\ c \in callbacks
    /\ LET act == ActiveTracks(tracksRef)
           step == currentStepRef
           hits == {i \in act : DrumPlayer(tracksRef[i], step) # NoNode}
       IN /\ lastActive' = act
          /\ lastDispatch' =
                {[pos |-> i, player |-> DrumPlayer(tracksRef[i], step),
                  calls |-> DrumCalls(tracksRef[i]),
                  step |-> step] : i \in hits}
          /\ started' = started \cup {DrumPlayer(tracksRef[i], step) : i \in hits}
          /\ LET calls == SynthCalls(tracksRef, act, step)
                 bCalled == \E i \in calls : tracksRef[i].type = "bass"
                 pCalled == {tracksRef[i].id : i \in {j \in calls :
                                                       tracksRef[j].type = "poly"}}
             IN /\ synthLog' = TickLog(tracksRef, calls, step, Len(tracksRef))
                /\ bassInst' = [id \in TrackIds |->
                      IF bCalled /\ id = bassRef
                      THEN PlayStepInst(bassInst[id], BassNote(bassInst[id], step))
                      ELSE bassInst[id]]
                /\ polyInst' = [id \in TrackIds |->
                      IF id \in pCalled
                      THEN PlayStepInst(polyInst[id], PolyNote(polyInst[id], step))
                      ELSE polyInst[id]]
    /\ currentStepRef' = (currentStepRef + 1) % c.stepAmount
    /\ currentStep' = currentStepRef'
    /\ lastOp' = "tick"
    /\ paramLog' = {}
    /\ UNCHANGED <<retryLoader, bpm, mounted, delayTime, urlCall, staleTracks>>
    /\ UNCHANGED <<stepAmount, isPlaying, isLoading, tracks, initPc, playPc,
                   playClosure, transportVars, loads, registryVars, created, disposed,
                   loaded, loadingSamples, clock, bassRef, stored>>

\* a started player reaches the end of its buffer, or its scheduled stop
PlayerEnds(l) ==
    /\ l \in started
    /\ started' = started \ {l}
    /\ Did("playerEnds")
    /\ UNCHANGED <<bpm, mounted, delayTime, urlCall>>
    /\ UNCHANGED <<seqVars, tracks, initPc, playPc, playClosure, transportVars, loads,
                   registryVars, created, disposed, loaded, loadingSamples, clock, synthVars>>

\* -------------------------------------------------------- UI handlers
\* mutant of handleStepAmountChange: the tracks are built anew for the step count
handleStepAmountChangeRebuilds(steps) ==
    /\ mounted
    /\ steps \in STEP_OPTIONS /\ steps # stepAmount
    /\ stepAmount' = steps
    /\ tracks' = [i \in 1..Len(tracks) |->
                    NewTrack(tracks[i].id, tracks[i].type, tracks[i].samplePath, steps)]
    /\ Render(tracks', isLoading, steps)
    /\ Did("setStepCount")
    /\ UNCHANGED <<bpm, mounted, delayTime, urlCall>>
    /\ UNCHANGED <<isPlaying, isLoading, currentStep, currentStepRef, initPc, playPc,
                   playClosure, transportVars, loads, registryVars, nodeVars,
                   loadingSamples, clock>>

\* the Steps select of the header: a controlled select, whose change event
\* fires when another option is chosen
handleStepAmountChange(steps) ==
    /\ mounted
    /\ steps \in STEP_OPTIONS /\ steps # stepAmount
    /\ stepAmount' = steps
    /\ tracks' = [i \in 1..Len(tracks) |->
                    [tracks[i] EXCEPT !.pattern = ResizePattern(@, steps)]]
    /\ Render(tracks', isLoading, steps)
    /\ Did("setStepCount")
    /\ UNCHANGED <<bpm, mounted, delayTime, urlCall>>
    /\ UNCHANGED <<isPlaying, isLoading, currentStep, currentStepRef, initPc, playPc,
                   playClosure, transportVars, loads, registryVars, nodeVars,
                   loadingSamples, clock>>

\* the tempos typed into the BPM input
BpmInputs == {60, 100, 120}

\* delays.current.forEach: the delays the bpm effect reaches
RegisteredDelays == {delays[id] : id \in TrackIds} \ {NoNode}

\* the BPM input of the header: setBpm(parseInt(e.target.value)), then the effects
\* on [bpm]: every registered delay ramps to calculateDelayTime(bpm) over 0.1 s,
\* and Tone.Transport.bpm.value is written
handleBpmChange(v) ==
    /\ mounted
    /\ v # bpm
    /\ bpm' = v
    /\ delayTime' = [n \in NodeIds |->
                        IF n \in RegisteredDelays THEN BaseDelayMs(v) ELSE delayTime[n]]
    /\ paramLog' = {[kind |-> "delay", node |-> n, param |-> "delayTime",
                     value |-> BaseDelayMs(v), ramp |-> RampMs] : n \in RegisteredDelays}
    /\ lastOp' = "setBpm"
    /\ staleTracks' = NoStale
    /\ lastActive' = {}
    /\ lastDispatch' = {}
    /\ synthLog' = << >>
    /\ UNCHANGED <<retryLoader, urlCall, mounted, seqVars, tracks, initPc, playPc,
                   playClosure, transportVars, loads, registryVars, nodeVars,
                   loadingSamples, clock, synthVars>>

\* the characters of a decimal numeral, each at the position of its value plus one
Digits == <<"0", "1", "2", "3", "4", "5", "6", "7", "8", "9">>

IsDigit(c) == \E d \in 1..Len(Digits) : Digits[d] = c

DigitValue(c) == (CHOOSE d \in 1..Len(Digits) : Digits[d] = c) - 1

\* the value of the digits a text starts with, after the value acc of the digits
\* read so far; what follows the digits is ignored
RECURSIVE LeadingDigits(_, _)
LeadingDigits(text, acc) ==
    IF text = << >> \/ ~IsDigit(Head(text)) THEN acc
    ELSE LeadingDigits(Tail(text), acc * 10 + DigitValue(Head(text)))

\* parseInt: an optional sign, then the digits the text starts with; NaN when
\* there is none
ParseInt(text) ==
    LET signed == text # << >> /\ Head(text) \in {"-", "+"}
        body == IF signed THEN Tail(text) ELSE text
    IN IF body = << >> \/ ~IsDigit(Head(body)) THEN NaN
       ELSE IF signed /\ Head(text) = "-" THEN 0 - LeadingDigits(body, 0)
       ELSE LeadingDigits(body, 0)

\* texts the BPM input can hold: empty, below min, in range, above max, negative,
\* with a fraction
BpmTexts == { << >>, <<"5">>, <<"6", "0">>, <<"1", "2", "0">>, <<"5", "0", "0">>,
              <<"-", "5">>, <<"9", "9", ".", "5">> }

\* onChange of the BPM input: setBpm(parseInt(e.target.value))
BpmOnChange(text) == handleBpmChange(ParseInt(text))

\* a row of the track list is on screen: the list is rendered when not loading
OnScreen(i) == mounted /\ ~isLoading /\ i \in 1..Len(tracks)

\* the writes handleEffectChange makes for a track id: `.value = ` on the node
\* the registry holds, none when it holds no node
EffectWrites(id, effect, value) ==
    LET Write(kind, node, param, v) ==
            IF node = NoNode THEN {}
            ELSE {[kind |-> kind, node |-> node, param |-> param, value |-> v,
                   ramp |-> 0]}
    IN CASE effect = "filter" -> Write("filter", filters[id], "frequency", value)
         [] effect = "resonance" -> Write("filter", filters[id], "Q", value)
         [] effect = "delay" ->
                Write("delay", delays[id], "delayTime", DelayMs(bpm, value))
                \cup Write("delay", delays[id], "wet", value)
         [] effect = "reverb" -> Write("reverb", reverbs[id], "wet", value)

\* the Filter, Delay and Reverb sliders of the row at position i
handleEffectChange(i, effect, value) ==
    /\ OnScreen(i)
    /\ effect \in DOMAIN NoEffects
    /\ value # tracks[i].effects[effect]
    /\ LET id == tracks[i].id IN
       /\ paramLog' = EffectWrites(id, effect, value)
       /\ delayTime' = IF effect = "delay" /\ delays[id] # NoNode
                        THEN [delayTime EXCEPT ![delays[id]] = DelayMs(bpm, value)]
                        ELSE delayTime
       /\ tracks' = [j \in 1..Len(tracks) |->
                       IF tracks[j].id = id
                       THEN [tracks[j] EXCEPT !.effects[effect] = value]
                       ELSE tracks[j]]
    /\ lastOp' = "setEffect"
    /\ staleTracks' = NoStale
    /\ lastActive' = {}
    /\ lastDispatch' = {}
    /\ synthLog' = << >>
    /\ UNCHANGED <<retryLoader, urlCall, mounted, bpm, seqVars, initPc, playPc, playClosure,
                   transportVars, loads, registryVars, nodeVars, loadingSamples,
                   clock, synthVars>>

\* newPattern[step] = !newPattern[step]
FlipStep(t, step) == [t EXCEPT !.pattern[step + 1] = ~@]

\* the tracks a handler of the last render closed over
ClosureTracks == IF staleTracks.due THEN staleTracks.tracks ELSE tracks

\* a step button of the drum row at position i: setTracks(tracks.map(...)) on the
\* tracks of the render the button belongs to
toggleStep(i, step) ==
    /\ mounted /\ ~isLoading
    /\ i \in 1..Len(ClosureTracks) /\ ClosureTracks[i].type = "drum"
    /\ step \in 0..(Len(ClosureTracks[i].pattern) - 1)
    /\ tracks' = [j \in 1..Len(ClosureTracks) |->
                    IF ClosureTracks[j].id = ClosureTracks[i].id
                    THEN FlipStep(ClosureTracks[j], step)
                    ELSE ClosureTracks[j]]
    /\ Did("toggleStep")
    /\ UNCHANGED <<bpm, mounted, delayTime, urlCall>>
    /\ UNCHANGED <<seqVars, initPc, playPc, playClosure, transportVars, loads,
                   registryVars, nodeVars, loadingSamples, clock, synthVars>>

FlipMuted(t) == [t EXCEPT !.muted = ~@]
FlipSoloed(t) == [t EXCEPT !.soloed = ~@]
FlipGated(t) == [t EXCEPT !.gated = ~@]

toggleTrackMute(i) ==
    /\ OnScreen(i)
    /\ tracks' = [j \in 1..Len(tracks) |->
                     IF tracks[j].id = tracks[i].id THEN FlipMuted(tracks[j])
                     ELSE tracks[j]]
    /\ Did("mute")
    /\ UNCHANGED <<bpm, mounted, delayTime, urlCall>>
    /\ UNCHANGED <<seqVars, initPc, playPc, playClosure, transportVars, loads,
                   registryVars, nodeVars, loadingSamples, clock, synthVars>>

toggleTrackSolo(i) ==
    /\ OnScreen(i)
    /\ tracks' = [j \in 1..Len(tracks) |->
                     IF tracks[j].id = tracks[i].id THEN FlipSoloed(tracks[j])
                     ELSE tracks[j]]
    /\ Did("solo")
    /\ UNCHANGED <<bpm, mounted, delayTime, urlCall>>
    /\ UNCHANGED <<seqVars, initPc, playPc, playClosure, transportVars, loads,
                   registryVars, nodeVars, loadingSamples, clock, synthVars>>

toggleTrackGate(i) ==
    /\ OnScreen(i)
    /\ tracks' = [j \in 1..Len(tracks) |->
                     IF tracks[j].id = tracks[i].id THEN FlipGated(tracks[j])
                     ELSE tracks[j]]
    /\ Did("gate")
    /\ UNCHANGED <<bpm, mounted, delayTime, urlCall>>
    /\ UNCHANGED <<seqVars, initPc, playPc, playClosure, transportVars, loads,
                   registryVars, nodeVars, loadingSamples, clock, synthVars>>

\* the Drum / Bass / Poly buttons of the header: id = `track-${Date.now()}`
handleAddTrack(type) ==
    /\ mounted
    /\ type \in {"drum", "bass", "poly"}
    /\ Len(tracks) < MaxTracks
    /\ tracks' = Append(tracks, NewTrack(GenIds[clock + 1], type, NoPath, stepAmount))
    /\ Render(tracks', isLoading, stepAmount)
    /\ Did("addTrack")
    /\ UNCHANGED <<bpm, mounted, delayTime, urlCall>>
    /\ UNCHANGED <<seqVars, initPc, playPc, playClosure, transportVars, loads,
                   registryVars, nodeVars, loadingSamples, clock>>

\* Date.now() moves on
ClockAdvance ==
    /\ clock < MaxClock
    /\ clock' = clock + 1
    /\ Did("clock")
    /\ UNCHANGED <<bpm, mounted, delayTime, urlCall>>
    /\ UNCHANGED <<seqVars, tracks, initPc, playPc, playClosure, transportVars, loads,
                   registryVars, nodeVars, loadingSamples, synthVars>>

\* the track id a node was built for
TidOf(n) == loads[((n - 1) \div (MaxRetries + 1)) + 1].tid

\* the nodes built for a track id on which dispose() was not called: they stay
\* connected, filter to delay to reverb to the destination
Live(id) == {x \in created \ disposed : TidOf(x[1]) = id}

\* the nodes removeTrack and disposePlayers reach for a track id
Registered(id) ==
    {<<players[id], "player">>, <<filters[id], "filter">>,
     <<delays[id], "delay">>, <<reverbs[id], "reverb">>}
    \ {<<NoNode, k>> : k \in Kinds}

\* mutant of removeTrack: the player is disposed and stays in the registry
removeTrackKeepsPlayer(i) ==
    /\ OnScreen(i)
    /\ LET id == tracks[i].id IN
       /\ started' = started \ {players[id]}
       /\ disposed' = disposed \cup Registered(id)
       /\ filters' = [filters EXCEPT ![id] = NoNode]
       /\ delays' = [delays EXCEPT ![id] = NoNode]
       /\ reverbs' = [reverbs EXCEPT ![id] = NoNode]
       /\ tracks' = SelectSeq(tracks, LAMBDA t : t.id # id)
    /\ Render(tracks', isLoading, stepAmount)
    /\ Did("removeTrack")
    /\ UNCHANGED <<bpm, mounted, delayTime, urlCall, players>>
    /\ UNCHANGED <<seqVars, initPc, playPc, playClosure, transportVars, loads,
                   created, loaded, loadingSamples, clock>>

\* the Delete button of the row at position i
removeTrack(i) ==
    /\ OnScreen(i)
    /\ LET id == tracks[i].id IN
       /\ started' = started \ {players[id]}
       /\ disposed' = disposed \cup Registered(id)
       /\ players' = [players EXCEPT ![id] = NoNode]
       /\ filters' = [filters EXCEPT ![id] = NoNode]
       /\ delays' = [delays EXCEPT ![id] = NoNode]
       /\ reverbs' = [reverbs EXCEPT ![id] = NoNode]
       /\ tracks' = SelectSeq(tracks, LAMBDA t : t.id # id)
    /\ Render(tracks', isLoading, stepAmount)
    /\ Did("removeTrack")
    /\ UNCHANGED <<bpm, mounted, delayTime, urlCall>>
    /\ UNCHANGED <<seqVars, initPc, playPc, playClosure, transportVars, loads,
                   created, loaded, loadingSamples, clock>>

\* disposePlayers: every registered node is disposed and the registries are cleared
DisposePlayers ==
    /\ disposed' = disposed \cup UNION {Registered(id) : id \in TrackIds}
    /\ players' = [id \in TrackIds |-> NoNode]
    /\ filters' = [id \in TrackIds |-> NoNode]
    /\ delays' = [id \in TrackIds |-> NoNode]
    /\ reverbs' = [id \in TrackIds |-> NoNode]

\* the component is unmounted: the cleanup of the mount effect runs stopSequencer
\* and disposePlayers. React has detached bassRef and polyRefs by then, and the
\* cleanups of the BassTrack and PolyTrack children dispose their synths. The
\* calls that are in flight (initializeSequencer, startSequencer, loads) go on.
Unmount ==
    /\ mounted
    /\ mounted' = FALSE
    /\ StopSequencer
    /\ DisposePlayers
    /\ bassInst' = [id \in TrackIds |-> Unmounted]
    /\ polyInst' = [id \in TrackIds |-> Unmounted]
    /\ bassRef' = NoRef
    /\ Did("unmount")
    /\ UNCHANGED <<stepAmount, bpm, delayTime, urlCall, isLoading, tracks, initPc, playPc, playClosure,
                   loads, created, loaded, loadingSamples, clock, stored>>

\* App renders <Sequencer /> again after it was unmounted (the page is switched
\* away and back): a new component with new state and new refs, on the same
\* Tone.Transport and among the audio nodes that exist. The calls of the earlier
\* component are over by then.
Remount ==
    /\ ~mounted
    /\ playPc = "idle" /\ initPc \in {"done", "failed"}
    /\ \A l \in 1..Len(loads) : loads[l].pc \notin {"fetch", "pending", "backoff"}
    /\ mounted' = TRUE
    /\ stepAmount' = InitialStepAmount
    /\ bpm' = InitialBpm
    /\ isPlaying' = FALSE
    /\ isLoading' = TRUE
    /\ currentStep' = 0
    /\ currentStepRef' = 0
    /\ tracks' = << >>
    /\ initPc' = "start"
    /\ playClosure' = NoClosure
    /\ repeatId' = 0
    /\ loads' = Disown(Disown(Disown(loads, "init"), "play"), "select")
    /\ players' = [id \in TrackIds |-> NoNode]
    /\ filters' = [id \in TrackIds |-> NoNode]
    /\ delays' = [id \in TrackIds |-> NoNode]
    /\ reverbs' = [id \in TrackIds |-> NoNode]
    /\ loadingSamples' = {}
    /\ bassInst' = [id \in TrackIds |-> Unmounted]
    /\ polyInst' = [id \in TrackIds |-> Unmounted]
    /\ bassRef' = NoRef
    /\ Did("remount")
    /\ UNCHANGED <<playPc, transport, callbacks, eventCount, nodeVars, clock, stored, urlCall,
                   delayTime>>

\* ------------------------------------------------ getSampleUrl (lib/samples.ts)
\* a path or URL is the sequence of its parts; the parts that hold a '/'
SlashParts == {"http://", "https://", "/samples/", "/"}

\* retries: 3 of retry.operation
UrlRetries == 3

\* the part the static URLs start with: window.location.origin
Origin == "origin"

StartsWith(path, part) == path # << >> /\ Head(path) = part

EndsWith(path, part) == path # << >> /\ path[Len(path)] = part

Includes(path, parts) == \E k \in 1..Len(path) : path[k] \in parts

\* the URL of a default sample of the public directory
PublicUrl(path) ==
    LET normalizedPath == IF StartsWith(path, "/samples/") THEN path
                          ELSE <<"/samples/">> \o path
        finalPath == IF EndsWith(normalizedPath, ".wav") THEN normalizedPath
                     ELSE normalizedPath \o <<".wav">>
    IN <<Origin>> \o finalPath

\* data.signedUrl of createSignedUrl(path, 3600)
SignedUrl(path) == <<"https://", "storage", "/">> \o path \o <<"?token">>

\* the paths getSampleUrl is called with: empty, a full URL, a Tone.js sample, two
\* default samples, a bare name, a storage key
StaticPaths ==
    { <<"https://", "cdn", "/", "a.mp3">>, <<"tonejs.github.io", "/", "kick.mp3">>,
      <<"/samples/", "kick", ".wav">>, <<"/samples/", "kick.mp3">>, <<"snare">> }

UrlPaths == StaticPaths \cup { << >>, <<"samples", "/", "u1", "/", "a.wav">> }

\* everything but the getSampleUrl call
appVars == <<retryLoader, mounted, stepAmount, bpm, isPlaying, isLoading, currentStep,
             currentStepRef, tracks, initPc, playPc, playClosure, transport, callbacks,
             eventCount, repeatId, loads, players, filters, delays, reverbs, created,
             disposed, loaded, started, loadingSamples, clock, bassInst, polyInst,
             bassRef, stored, synthLog, lastActive, lastDispatch, delayTime,
             staleTracks, paramLog>>

\* getSampleUrl(path), up to its return or to the first attempt of the operation
getSampleUrl(path) ==
    /\ urlCall.pc \in {"idle", "resolved", "rejected"}
    /\ path \in UrlPaths
    /\ LET call == [NoUrlCall EXCEPT !.path = path] IN
       IF path = << >>
       THEN urlCall' = [call EXCEPT !.pc = "resolved"]
       ELSE IF StartsWith(path, "http://") \/ StartsWith(path, "https://")
                 \/ Includes(path, {"tonejs.github.io"})
       THEN urlCall' = [call EXCEPT !.pc = "resolved", !.value = path]
       ELSE IF StartsWith(path, "/samples/") \/ ~Includes(path, SlashParts)
       THEN urlCall' = [call EXCEPT !.pc = "resolved", !.value = PublicUrl(path)]
       ELSE urlCall' = [call EXCEPT !.pc = "attempt", !.attempt = 1]
    /\ lastOp' = "getSampleUrl"
    /\ UNCHANGED appVars

\* createSignedUrl settles for the attempt in flight: with a URL, with an error,
\* with neither, or by throwing. operation.retry(err) is true while retries are
\* left; after the last one the promise the function returned is rejected, and the
\* function's own promise with it: 'return new Promise' is not awaited inside the
\* try block
CreateSignedUrlSettles(outcome) ==
    /\ urlCall.pc = "attempt"
    /\ outcome \in {"url", "error", "nodata", "throws"}
    /\ LET call == [urlCall EXCEPT !.storageCalls = @ + 1] IN
       IF outcome = "url"
       THEN urlCall' = [call EXCEPT !.pc = "resolved", !.value = SignedUrl(urlCall.path)]
       ELSE IF urlCall.attempt <= UrlRetries
       THEN urlCall' = [call EXCEPT !.pc = "backoff"]
       ELSE urlCall' = [call EXCEPT !.pc = "rejected"]
    /\ lastOp' = "createSignedUrl"
    /\ UNCHANGED appVars

\* the timeout of the operation fires: the next attempt
UrlRetryTimer ==
    /\ urlCall.pc = "backoff"
    /\ urlCall' = [urlCall EXCEPT !.pc = "attempt", !.attempt = @ + 1]
    /\ lastOp' = "urlRetry"
    /\ UNCHANGED appVars

\* the sample and recording selects of the drum row at position i (disabled while
\* loadingSamples[id]); the sample is found in userSamples / userRecordings
handleSelectSample(i, path) ==
    /\ OnScreen(i) /\ tracks[i].type = "drum"
    /\ path \in UserPaths
    /\ tracks[i].id \notin loadingSamples
    /\ LET id == tracks[i].id
           trackToUpdate == tracks[CHOOSE j \in 1..Len(tracks) :
                               /\ tracks[j].id = id
                               /\ \A k \in 1..(j - 1) : tracks[k].id # id]
           updatedTrack == [trackToUpdate EXCEPT !.samplePath = path]
           replaced == [j \in 1..Len(tracks) |->
                          IF tracks[j].id = id THEN updatedTrack ELSE tracks[j]]
       IN
       /\ started' = started \ {players[id]}
       /\ disposed' = disposed \cup
              (IF players[id] # NoNode THEN {<<players[id], "player">>} ELSE {})
       /\ players' = [players EXCEPT ![id] = NoNode]
       /\ IF isPlaying
          THEN /\ Len(loads) < MaxLoads
               /\ loads' = Append(loads, NewLoad(updatedTrack, "select", bpm))
               /\ tracks' = [j \in 1..Len(replaced) |->
                                IF replaced[j].id = id THEN SetLoading(replaced[j])
                                ELSE replaced[j]]
               /\ loadingSamples' = loadingSamples \cup {id}
          ELSE /\ tracks' = replaced
               /\ UNCHANGED <<loads, loadingSamples>>
    /\ Did("selectSample")
    /\ UNCHANGED <<bpm, mounted, delayTime, urlCall>>
    /\ UNCHANGED <<seqVars, initPc, playPc, playClosure, transportVars, filters,
                   delays, reverbs, created, loaded, clock, synthVars>>

\* toggleNote(stepIndex, noteIndex) of a mounted BassTrack or PolyTrack
FlipCell(inst, stepIndex, noteIndex) ==
    [inst EXCEPT !.pattern[stepIndex + 1][noteIndex + 1] = ~@]

BassToggleNote(id, stepIndex, noteIndex) ==
    /\ bassInst[id].mounted
    /\ stepIndex \in 0..(Len(bassInst[id].pattern) - 1)
    /\ noteIndex \in 0..(ScaleLen - 1)
    /\ bassInst' = [bassInst EXCEPT ![id] = FlipCell(@, stepIndex, noteIndex)]
    /\ stored' = [stored EXCEPT !.bass = bassInst'[id].pattern]
    /\ Did("bassToggle")
    /\ UNCHANGED <<bpm, mounted, delayTime, urlCall>>
    /\ UNCHANGED <<seqVars, tracks, initPc, playPc, playClosure, transportVars, loads,
                   registryVars, nodeVars, loadingSamples, clock, polyInst,
                   bassRef>>

PolyToggleNote(id, stepIndex, noteIndex) ==
    /\ polyInst[id].mounted
    /\ stepIndex \in 0..(Len(polyInst[id].pattern) - 1)
    /\ noteIndex \in 0..(ScaleLen - 1)
    /\ polyInst' = [polyInst EXCEPT ![id] = FlipCell(@, stepIndex, noteIndex)]
    /\ stored' = [stored EXCEPT !.poly = polyInst'[id].pattern]
    /\ Did("polyToggle")
    /\ UNCHANGED <<bpm, mounted, delayTime, urlCall>>
    /\ UNCHANGED <<seqVars, tracks, initPc, playPc, playClosure, transportVars, loads,
                   registryVars, nodeVars, loadingSamples, clock, bassInst,
                   bassRef>>

\* handleStepAmountChange(steps) of a BassTrack or PolyTrack, the Steps select of
\* its own header: rows are cut or added, the sequencer's stepAmount is not told
LocalResize(inst, steps) ==
    [inst EXCEPT !.localStepAmount = steps,
                 !.pattern = [k \in 1..steps |->
                                 IF k <= Len(inst.pattern) THEN inst.pattern[k]
                                 ELSE Falses(ScaleLen)]]

BassHandleStepAmountChange(id, steps) ==
    /\ bassInst[id].mounted
    /\ steps \in STEP_OPTIONS /\ steps # bassInst[id].localStepAmount
    /\ bassInst' = [bassInst EXCEPT ![id] = LocalResize(@, steps)]
    /\ stored' = [stored EXCEPT !.bass = bassInst'[id].pattern]
    /\ Did("bassSteps")
    /\ UNCHANGED <<bpm, mounted, delayTime, urlCall>>
    /\ UNCHANGED <<seqVars, tracks, initPc, playPc, playClosure, transportVars, loads,
                   registryVars, nodeVars, loadingSamples, clock, polyInst,
                   bassRef>>

PolyHandleStepAmountChange(id, steps) ==
    /\ polyInst[id].mounted
    /\ steps \in STEP_OPTIONS /\ steps # polyInst[id].localStepAmount
    /\ polyInst' = [polyInst EXCEPT ![id] = LocalResize(@, steps)]
    /\ stored' = [stored EXCEPT !.poly = polyInst'[id].pattern]
    /\ Did("polySteps")
    /\ UNCHANGED <<bpm, mounted, delayTime, urlCall>>
    /\ UNCHANGED <<seqVars, tracks, initPc, playPc, playClosure, transportVars, loads,
                   registryVars, nodeVars, loadingSamples, clock, bassInst,
                   bassRef>>

\* clearPattern of a BassTrack or PolyTrack: stepAmount empty rows
BassClearPattern(id) ==
    /\ bassInst[id].mounted
    /\ bassInst' = [bassInst EXCEPT ![id].pattern = EmptyRows(stepAmount)]
    /\ stored' = [stored EXCEPT !.bass = bassInst'[id].pattern]
    /\ Did("bassClear")
    /\ UNCHANGED <<bpm, mounted, delayTime, urlCall>>
    /\ UNCHANGED <<seqVars, tracks, initPc, playPc, playClosure, transportVars, loads,
                   registryVars, nodeVars, loadingSamples, clock, polyInst,
                   bassRef>>

PolyClearPattern(id) ==
    /\ polyInst[id].mounted
    /\ polyInst' = [polyInst EXCEPT ![id].pattern = EmptyRows(stepAmount)]
    /\ stored' = [stored EXCEPT !.poly = polyInst'[id].pattern]
    /\ Did("polyClear")
    /\ UNCHANGED <<bpm, mounted, delayTime, urlCall>>
    /\ UNCHANGED <<seqVars, tracks, initPc, playPc, playClosure, transportVars, loads,
                   registryVars, nodeVars, loadingSamples, clock, bassInst,
                   bassRef>>

\* ------------------------------------------------------ specifications
\* The handlers are the same in every specification; each specification draws
\* the user's inputs from the sets its claims need.
Loader ==
    \/ InitFails
    \/ InitLoads
    \/ InitDone
    \/ \E l \in 1..MaxLoads : LoadFails(l)
    \/ \E l \in 1..MaxLoads : LoadCreates(l)
    \/ \E l \in 1..MaxLoads : PlayerOnload(l)
    \/ \E l \in 1..MaxLoads : PlayerOnerror(l)

Transport ==
    \/ StartSequencer
    \/ PlayResumeFails
    \/ PlayLoads
    \/ PlayBegin
    \/ \E c \in callbacks : Tick(c)

\* play, tick, stop and the step count
Next ==
    \/ Loader
    \/ Transport
    \/ \E n \in STEP_OPTIONS : handleStepAmountChange(n)

Spec == Init /\ [][Next]_vars

\* the cells a specification lets the user toggle
ToggleSteps == 0..MaxToggleStep
Degrees == 0..MaxDegree

\* mute and solo against the tick, with up to MaxTracks tracks
NextMix ==
    \/ Loader
    \/ Transport
    \/ \E type \in {"drum", "bass", "poly"} : handleAddTrack(type)
    \/ \E i \in 1..MaxTracks : toggleTrackMute(i)
    \/ \E i \in 1..MaxTracks : toggleTrackSolo(i)

SpecMix == Init /\ [][NextMix]_vars

\* pattern edits against the step count; FarStep is a cell that the smaller step
\* counts cut off
NextPattern ==
    \/ Loader
    \/ \E type \in {"drum", "bass", "poly"} : handleAddTrack(type)
    \/ \E n \in STEP_OPTIONS : handleStepAmountChange(n)
    \/ \E i \in 1..MaxTracks, step \in {0, FarStep} : toggleStep(i, step)
    \/ \E id \in TrackIds, si \in {0, FarStep} : BassToggleNote(id, si, 0)
    \/ \E id \in TrackIds, si \in {0, FarStep} : PolyToggleNote(id, si, 0)

SpecPattern == Init /\ [][NextPattern]_vars

\* the retrying loadTrackSample under initialization, play and sample selection
NextRetry ==
    \/ Loader
    \/ \E l \in 1..MaxLoads : RetryTimer(l)
    \/ Transport
    \/ \E i \in 1..MaxTracks, path \in UserPaths : handleSelectSample(i, path)

SpecRetry == InitRetry /\ [][NextRetry]_vars

\* loads against sample selection and track removal
NextLoad ==
    \/ Loader
    \/ Transport
    \/ \E i \in 1..MaxTracks, path \in UserPaths : handleSelectSample(i, path)
    \/ \E i \in 1..MaxTracks : removeTrack(i)

SpecLoad == Init /\ [][NextLoad]_vars

\* notes and samples against play, stop and added synth tracks
NextStop ==
    \/ Loader
    \/ Transport
    \/ \E type \in {"bass", "poly"} : handleAddTrack(type)
    \/ \E i \in 1..MaxTracks : toggleStep(i, 0)
    \/ \E n \in 1..(MaxLoads * (MaxRetries + 1)) : PlayerEnds(n)
    \/ \E id \in TrackIds : BassToggleNote(id, 0, 0)
    \/ \E id \in TrackIds : PolyToggleNote(id, 0, 0)

SpecStop == Init /\ [][NextStop]_vars

\* the notes of the default Bass track against the tick
NextBass ==
    \/ Loader
    \/ Transport
    \/ \E id \in TrackIds, si \in ToggleSteps, ni \in Degrees :
          BassToggleNote(id, si, ni)

SpecBass == Init /\ [][NextBass]_vars

\* gated and ungated drum hits against the tempo
NextGate ==
    \/ Loader
    \/ Transport
    \/ \E i \in 1..MaxTracks : toggleStep(i, 0)
    \/ \E i \in 1..MaxTracks : toggleTrackGate(i)
    \/ \E v \in BpmInputs : handleBpmChange(v)

SpecGate == Init /\ [][NextGate]_vars

\* the first steps of the four bars of a 16-step pattern
BarSteps == {0, 4, 8, 12}

\* the cells of a Poly track against the tick
NextPoly ==
    \/ Loader
    \/ Transport
    \/ handleAddTrack("poly")
    \/ \E id \in TrackIds, si \in BarSteps, ni \in {0, MaxDegree} :
          PolyToggleNote(id, si, ni)

SpecPoly == Init /\ [][NextPoly]_vars

\* the cells of two consecutive rows of a Poly track against the tick
NextChord ==
    \/ Loader
    \/ Transport
    \/ handleAddTrack("poly")
    \/ \E id \in TrackIds, si \in ToggleSteps : PolyToggleNote(id, si, 0)

SpecChord == Init /\ [][NextChord]_vars

\* either build of loadTrackSample
InitAny == Mount(TRUE) \/ Mount(FALSE)

\* ticks against loads in every state, under either loadTrackSample
NextTrigger ==
    \/ Loader
    \/ \E l \in 1..MaxLoads : RetryTimer(l)
    \/ Transport
    \/ \E i \in 1..MaxTracks : toggleStep(i, 0)
    \/ \E i \in 1..MaxTracks, path \in UserPaths : handleSelectSample(i, path)

SpecTrigger == InitAny /\ [][NextTrigger]_vars

\* ticks against sample selection, added and removed tracks and the unmount
NextDispose ==
    \/ InitLoads
    \/ InitDone
    \/ \E l \in 1..MaxLoads : LoadCreates(l)
    \/ \E l \in 1..MaxLoads : PlayerOnload(l)
    \/ StartSequencer
    \/ PlayLoads
    \/ PlayBegin
    \/ \E c \in callbacks : Tick(c)
    \/ \E i \in 1..MaxTracks : toggleStep(i, 0)
    \/ \E i \in 1..MaxTracks, path \in UserPaths : handleSelectSample(i, path)
    \/ \E i \in 1..MaxTracks : removeTrack(i)
    \/ handleAddTrack("bass")
    \/ \E id \in {"bass", GenIds[1]} : BassToggleNote(id, 0, 0)
    \/ Unmount

SpecDispose == Init /\ [][NextDispose]_vars

\* the same for PolyTracks: ticks against added and removed tracks and the unmount
NextDisposePoly ==
    \/ InitLoads
    \/ InitDone
    \/ \E l \in 1..MaxLoads : LoadCreates(l)
    \/ \E l \in 1..MaxLoads : PlayerOnload(l)
    \/ StartSequencer
    \/ PlayLoads
    \/ PlayBegin
    \/ \E c \in callbacks : Tick(c)
    \/ \E i \in 1..MaxTracks : removeTrack(i)
    \/ handleAddTrack("poly")
    \/ \E id \in TrackIds : PolyToggleNote(id, 0, 0)
    \/ Unmount

SpecDisposePoly == Init /\ [][NextDisposePoly]_vars

\* the pattern of a BassTrack and a PolyTrack against the global step count and
\* the track's own Steps select
NextRows ==
    \/ Loader
    \/ handleAddTrack("poly")
    \/ \E n \in {8, 16, 32} : handleStepAmountChange(n)
    \/ \E id \in TrackIds, n \in {8, 16, 32} : BassHandleStepAmountChange(id, n)
    \/ \E id \in TrackIds, n \in {8, 16, 32} : PolyHandleStepAmountChange(id, n)
    \/ \E id \in TrackIds : BassToggleNote(id, 0, 0)
    \/ \E id \in TrackIds : PolyToggleNote(id, 0, 0)
    \/ \E id \in TrackIds : BassClearPattern(id)
    \/ \E id \in TrackIds : PolyClearPattern(id)

SpecRows == Init /\ [][NextRows]_vars

\* the delay send levels, in hundredths, and the filter and reverb settings a
\* specification lets the user choose
SendLevels == {0, 50, 100}
EffectInputs ==
    {<<"delay", v>> : v \in SendLevels} \cup {<<"filter", 800>>, <<"reverb", 50>>}

\* effect sliders against tempo changes and loads
NextEffects ==
    \/ Loader
    \/ \E v \in BpmInputs : handleBpmChange(v)
    \/ \E i \in 1..MaxTracks, e \in EffectInputs : handleEffectChange(i, e[1], e[2])

SpecEffects == Init /\ [][NextEffects]_vars

\* step buttons against the status updates of loads in flight, with renders that
\* may still be due when a button is pressed
NextToggle ==
    \/ Loader
    \/ Transport
    \/ \E l \in 1..MaxLoads : PlayerOnloadRenderDue(l)
    \/ RenderDue
    \/ \E i \in 1..MaxTracks, step \in ToggleSteps : toggleStep(i, step)
    \/ \E i \in 1..MaxTracks, path \in UserPaths : handleSelectSample(i, path)

SpecToggle == Init /\ [][NextToggle]_vars

\* any text in the BPM input, against the loads of mount
NextBpm ==
    \/ Loader
    \/ \E text \in BpmTexts : BpmOnChange(text)

SpecBpm == Init /\ [][NextBpm]_vars

\* tracks added and removed while Date.now() may or may not move on
NextIds ==
    \/ Loader
    \/ \E type \in {"drum", "bass", "poly"} : handleAddTrack(type)
    \/ \E i \in 1..MaxTracks : removeTrack(i)
    \/ ClockAdvance

SpecIds == Init /\ [][NextIds]_vars

\* the notes of two Bass tracks against mute, solo and the tick, with loads
\* that succeed
NextSynthMix ==
    \/ InitLoads
    \/ InitDone
    \/ \E l \in 1..MaxLoads : LoadCreates(l)
    \/ \E l \in 1..MaxLoads : PlayerOnload(l)
    \/ StartSequencer
    \/ PlayLoads
    \/ PlayBegin
    \/ \E c \in callbacks : Tick(c)
    \/ handleAddTrack("bass")
    \/ \E i \in 1..MaxTracks : toggleTrackMute(i)
    \/ \E i \in 1..MaxTracks : toggleTrackSolo(i)
    \/ \E id \in TrackIds : BassToggleNote(id, 0, 0)

SpecSynthMix == Init /\ [][NextSynthMix]_vars

\* the notes of the one Bass track and of a Poly track against mute and the tick
NextHeld ==
    \/ InitLoads
    \/ InitDone
    \/ \E l \in 1..MaxLoads : LoadCreates(l)
    \/ \E l \in 1..MaxLoads : PlayerOnload(l)
    \/ StartSequencer
    \/ PlayLoads
    \/ PlayBegin
    \/ \E c \in callbacks : Tick(c)
    \/ handleAddTrack("poly")
    \/ \E i \in 1..MaxTracks : toggleTrackMute(i)
    \/ \E id \in TrackIds : BassToggleNote(id, 0, 0)
    \/ \E id \in TrackIds : PolyToggleNote(id, 0, 0)

SpecHeld == Init /\ [][NextHeld]_vars

\* a note on the last step of a pattern that the track's own Steps select cuts to
\* ShortSteps rows, against the ticks of a 16-step cycle
NextShort ==
    \/ InitLoads
    \/ InitDone
    \/ \E l \in 1..MaxLoads : LoadCreates(l)
    \/ \E l \in 1..MaxLoads : PlayerOnload(l)
    \/ StartSequencer
    \/ PlayLoads
    \/ PlayBegin
    \/ \E c \in callbacks : Tick(c)
    \/ handleAddTrack("poly")
    \/ \E id \in TrackIds : BassHandleStepAmountChange(id, ShortSteps)
    \/ \E id \in TrackIds : PolyHandleStepAmountChange(id, ShortSteps)
    \/ \E id \in TrackIds : BassToggleNote(id, ShortSteps - 1, 0)
    \/ \E id \in TrackIds : PolyToggleNote(id, ShortSteps - 1, 0)

SpecShort == Init /\ [][NextShort]_vars

\* play against the unmount and a later mount of the Sequencer
NextRemount ==
    \/ InitLoads
    \/ InitDone
    \/ \E l \in 1..MaxLoads : LoadCreates(l)
    \/ \E l \in 1..MaxLoads : PlayerOnload(l)
    \/ StartSequencer
    \/ PlayLoads
    \/ PlayBegin
    \/ Unmount
    \/ Remount

SpecRemount == Init /\ [][NextRemount]_vars

\* getSampleUrl calls and the outcomes of the storage, beside the loads of mount
NextUrl ==
    \/ Loader
    \/ \E path \in UrlPaths : getSampleUrl(path)
    \/ \E outcome \in {"url", "error", "nodata", "throws"} :
          CreateSignedUrlSettles(outcome)
    \/ UrlRetryTimer

SpecUrl == Init /\ [][NextUrl]_vars

\* ------------------------------------------------------------- claims
\* C1: in every reachable state 0 <= currentStep < stepCount, also after the
\* step count is changed while the sequencer plays.
C1_StepInRange ==
    /\ 0 <= currentStep /\ currentStep < stepAmount
    /\ 0 <= currentStepRef /\ currentStepRef < stepAmount

AnySoloed == \E j \in 1..Len(tracks) : tracks[j].soloed

\* C2: on every tick a muted track is never active; with a soloed track in the
\* session only soloed tracks are active; with none, every unmuted track is.
C2_ActiveSet ==
    lastOp = "tick" =>
        \A i \in 1..Len(tracks) :
            /\ tracks[i].muted => i \notin lastActive
            /\ (AnySoloed /\ ~tracks[i].soloed) => i \notin lastActive
            /\ (~AnySoloed /\ ~tracks[i].muted) => i \in lastActive

C2_Witness ==
    /\ lastOp = "tick"
    /\ \E i, j, k \in 1..Len(tracks) :
        /\ tracks[i].muted /\ tracks[i].soloed
        /\ ~tracks[j].muted /\ ~tracks[j].soloed
        /\ k \in lastActive

\* tracks A(muted=false, soloed=false), B(false, true), C(true, true) at a, b, c
IsABC(a, b, c) ==
    /\ Len(tracks) = 3 /\ {a, b, c} = {1, 2, 3}
    /\ ~tracks[a].muted /\ ~tracks[a].soloed
    /\ ~tracks[b].muted /\ tracks[b].soloed
    /\ tracks[c].muted /\ tracks[c].soloed

\* C3 as stated: with exactly the tracks A, B and C the active set of a tick is
\* {B, C}.
C3_ActiveIsBC ==
    \A a, b, c \in 1..3 : (lastOp = "tick" /\ IsABC(a, b, c)) => lastActive = {b, c}

\* C3 as amended: with exactly the tracks A, B and C the active set of a tick is
\* {B}: A is excluded by B's solo, C by its own mute.
C3_ActiveIsB ==
    \A a, b, c \in 1..3 : (lastOp = "tick" /\ IsABC(a, b, c)) => lastActive = {b}

C3_Witness ==
    lastOp = "tick" /\ \E a, b, c \in 1..3 : IsABC(a, b, c) /\ lastActive = {b}

\* q is p resized to n cells: the cells both have are equal, the added ones are e
Resized(p, q, n, e) ==
    /\ Len(q) = n
    /\ \A k \in 1..Min(Len(p), n) : q[k] = p[k]
    /\ \A k \in (Len(p) + 1)..n : q[k] = e

C5_ThreeAttempts ==
    /\ \A l \in 1..Len(loads) : loads[l].attempt <= 3
    /\ \A i \in 1..Len(tracks) : tracks[i].loadProgress.attempt <= 3

\* the last loadTrackSample call made for a track id, 0 if none
LastLoad(id) ==
    IF \E l \in 1..Len(loads) : loads[l].tid = id
    THEN CHOOSE l \in 1..Len(loads) :
            /\ loads[l].tid = id
            /\ \A k \in (l + 1)..Len(loads) : loads[k].tid # id
    ELSE 0

\* the load ended in failure: caught, reported by the player, or retries exhausted
EndedInFailure(l) == loads[l].pc \in {"failed", "error", "rejected"}

\* C6: every way a load can end in failure leaves the track's status failed with
\* a non-empty message, never loading, retrying or no status.
C6_FailureShown ==
    \A i \in 1..Len(tracks) :
        LET l == LastLoad(tracks[i].id) IN
        (l # 0 /\ EndedInFailure(l) /\ loads[l].path = tracks[i].samplePath)
            => /\ tracks[i].loadProgress.status = "failed"
               /\ tracks[i].loadProgress.message # ""

\* C7: the live nodes built for a track id are exactly the registered ones, and
\* a load that failed leaves no player registered for the track.
C7_LiveAreRegistered ==
    /\ \A id \in TrackIds : Live(id) = Registered(id)
    /\ \A l \in 1..Len(loads) :
           EndedInFailure(l) => players[loads[l].tid] # Node(l)

\* C8: once a track is removed no node built for its id stays undisposed, also
\* when a load for the id completes after the removal.
C8_RemovedLeavesNothing ==
    initPc = "done" =>
        \A id \in TrackIds :
            (\A i \in 1..Len(tracks) : tracks[i].id # id) => Live(id) = {}

\* C9: after stop() the transport is stopped, no tick callback is registered,
\* currentStep is 0, isPlaying is false and nothing sounds: no player is started,
\* no bass note and no poly chord is held.
C9_StopSilences ==
    lastOp = "stop" =>
        /\ transport = "stopped"
        /\ callbacks = {}
        /\ currentStep = 0
        /\ ~isPlaying
        /\ started \ {x[1] : x \in disposed} = {}
        /\ \A id \in TrackIds : bassInst[id].voice = 0 /\ polyInst[id].voice = 0

\* C10: with one Bass track, when the tick of step N+1 releases the note of
\* step N and attacks the next one, the release is scheduled strictly earlier
\* than the attack.
C10_ReleaseBeforeAttack ==
    Cardinality({i \in 1..Len(tracks) : tracks[i].type = "bass"}) = 1 =>
    \A j, k \in 1..Len(synthLog) :
        (/\ synthLog[j].kind = "bass" /\ synthLog[k].kind = "bass"
         /\ synthLog[j].id = synthLog[k].id
         /\ synthLog[j].op = "release" /\ synthLog[k].op = "attack")
            => synthLog[j].at < synthLog[k].at

\* the step the last tick dispatched: the one before currentStepRef in the cycle
\* of the scheduled callback
LastStep ==
    LET c == CHOOSE c \in callbacks : c.id = repeatId
    IN (currentStepRef + c.stepAmount - 1) % c.stepAmount

\* C11: a tick at time T starts a gated drum hit at T and stops it at exactly
\* T plus one 16th note of the current tempo (125 ms at 120 BPM); an ungated hit
\* is started at T and not stopped. Every active drum track whose current cell
\* is set and whose player is loaded gets its hit.
C11_GateTiming ==
    lastOp = "tick" =>
        /\ \A d \in lastDispatch :
              /\ d.calls[1] = [op |-> "start", at |-> 0]
              /\ IF tracks[d.pos].gated
                 THEN /\ Len(d.calls) = 2
                      /\ d.calls[2].op = "stop"
                      /\ d.calls[2].at * bpm = 60000 \div 4
                      /\ (bpm = 120 => d.calls[2].at = 125)
                 ELSE Len(d.calls) = 1
        /\ \A i \in 1..Len(tracks) :
              (/\ tracks[i].type = "drum"
               /\ ~tracks[i].muted
               /\ \A j \in 1..Len(tracks) : ~tracks[j].soloed
               /\ players[tracks[i].id] \in loaded
               /\ LastStep + 1 \in DOMAIN tracks[i].pattern
               /\ tracks[i].pattern[LastStep + 1])
                 => \E d \in lastDispatch : d.pos = i /\ d.step = LastStep

C11_Witness ==
    /\ lastOp = "tick"
    /\ bpm # 120
    /\ \E d \in lastDispatch : tracks[d.pos].gated /\ Len(d.calls) = 2

\* the chord a Poly attack of the last tick names, as an index of the progression
PolyAttacks ==
    {synthLog[k].note - 1 : k \in {j \in 1..Len(synthLog) :
        synthLog[j].kind = "poly" /\ synthLog[j].op = "attack"}}

\* for every progression length and step, the chord index is the bar of the step
\* modulo the length
EveryProgression ==
    \A n \in 1..MaxProgression, s \in 0..63 :
        \E q \in 0..15 : 4 * q <= s /\ s < 4 * q + 4 /\ ChordIndex(s, n) = q % n

\* C12: playStep(s) of a Poly track selects the chord floor(s/4) mod length(P)
\* of the progression P, whatever cells of row s are marked; steps 0, 4, 8, 12
\* of a 16-step pattern select the chords 0, 1, 2, 3.
C12_ChordIdentity ==
    /\ EveryProgression
    /\ lastOp = "tick" =>
          \A x \in PolyAttacks :
              /\ \E q \in 0..15 :
                    4 * q <= LastStep /\ LastStep < 4 * q + 4 /\ x = q % 4
              /\ (stepAmount = 16 /\ LastStep \in BarSteps) => 4 * x = LastStep

C12_Witness ==
    /\ lastOp = "tick" /\ LastStep = 12 /\ PolyAttacks = {3}
    /\ \E id \in TrackIds :
          /\ polyInst[id].mounted
          /\ ~polyInst[id].pattern[13][1]
          /\ polyInst[id].pattern[13][MaxDegree + 1]

\* nothing sounds: no undisposed player is started, no bass note or chord is held
Silent ==
    /\ started \ {x[1] : x \in disposed} = {}
    /\ \A id \in TrackIds : bassInst[id].voice = 0 /\ polyInst[id].voice = 0

\* C13: play() invoked while playing leaves the state stop() leaves: isPlaying
\* false, transport stopped, no tick callback, currentStep 0, every source
\* released; and it starts no load and no new schedule.
C13_ToggleStops ==
    lastOp = "stop" =>
        /\ ~isPlaying /\ transport = "stopped" /\ callbacks = {} /\ repeatId = 0
        /\ currentStep = 0 /\ currentStepRef = 0
        /\ playPc = "idle" /\ ~isLoading
        /\ Silent

\* the part of C13 that the code keeps: the toggle does what stopSequencer does,
\* starts no load and schedules nothing
C13_ToggleStartsNothing ==
    [][lastOp' = "stop" =>
          /\ isPlaying /\ ~isPlaying'
          /\ transport' = "stopped" /\ callbacks' = {} /\ repeatId' = 0
          /\ currentStep' = 0 /\ currentStepRef' = 0
          /\ started' \cap RegisteredPlayers = {}
          /\ UNCHANGED <<loads, eventCount, playPc, playClosure, isLoading, tracks,
                         registryVars, created, disposed>>]_vars

\* C14: a successful play() starts at step 0; each tick dispatches the current
\* value of currentStep and then advances it by one modulo stepCount.
C14_StepCycle ==
    [][/\ lastOp' = "playBegin" => currentStep' = 0 /\ currentStepRef' = 0
       /\ lastOp' = "tick" =>
             /\ \A d \in lastDispatch' : d.step = currentStep
             /\ currentStep' = (currentStep + 1) % stepAmount]_vars

\* C15: a play() that fails while starting (the audio context does not resume,
\* a load rejects) leaves the engine stopped: isPlaying false, no tick callback,
\* transport stopped, currentStep 0, the loading indicator cleared.
C15_FailedPlayStops ==
    [][(playPc # "idle" /\ playPc' = "idle" /\ lastOp' # "playBegin") =>
          /\ ~isPlaying' /\ callbacks' = {} /\ repeatId' = 0
          /\ transport' = "stopped"
          /\ currentStep' = 0 /\ currentStepRef' = 0
          /\ ~isLoading']_vars

\* a play() whose load was rejected after the last retry has ended
C15_Witness ==
    /\ lastOp = "loadFails" /\ eventCount = 0 /\ initPc = "done"
    /\ playPc = "idle" /\ ~isLoading /\ ~isPlaying
    /\ \E l \in 1..Len(loads) : loads[l].pc = "rejected"

\* C16: playback does not wait for sample loads: once the audio context has
\* resumed, nothing a load does or fails to do keeps the transport from starting.
C16_PlayNotBlocked == playPc = "loads" => Settled("play")

\* C16, second half: a load that fails does not keep play() from starting the
\* transport, so no play() ends stopped because a load was rejected.
C16_RejectKeepsPlay ==
    [][(playPc = "loads" /\ playPc' = "idle") => isPlaying']_vars

\* the load state of track id is Ready: a load of that track has built the
\* player registered for it, and the player's onload has fired
Ready(id) ==
    \E l \in 1..Len(loads) :
        /\ loads[l].tid = id
        /\ loads[l].pc = "ready"
        /\ players[id] = Node(l)

\* C17: a tick issues start on the player of a Drum track only if the track's
\* sample is fully loaded; the trigger of a track that is idle, loading, retrying
\* or failed is dropped: no start, no error shown, no change of the tracks, the
\* loads or the registries, and no start issued later by anything but a tick that
\* finds the track Ready.
C17_StartOnlyReady ==
    [][/\ \A n \in started' \ started :
            /\ lastOp' = "tick"
            /\ \E d \in lastDispatch' : d.player = n
       /\ lastOp' = "tick" =>
            /\ \A d \in lastDispatch' :
                  /\ Ready(tracksRef[d.pos].id)
                  /\ d.player = players[tracksRef[d.pos].id]
                  /\ PatternAt(tracksRef[d.pos].pattern, d.step)
            /\ \A i \in 1..Len(tracksRef) :
                  ~Ready(tracksRef[i].id) =>
                      /\ players[tracksRef[i].id] \notin started' \ started
                      /\ tracks' = tracks
                      /\ loads' = loads
                      /\ <<players, filters, delays, reverbs>>' =
                             <<players, filters, delays, reverbs>>]_vars

\* a tick met a set cell of an active Drum track whose player is registered but
\* not loaded, and started nothing
C17_Witness ==
    /\ lastOp = "tick"
    /\ lastDispatch = {}
    /\ \E i \in lastActive :
          /\ tracksRef[i].type = "drum"
          /\ PatternAt(tracksRef[i].pattern, LastStep)
          /\ players[tracksRef[i].id] # NoNode
          /\ ~Ready(tracksRef[i].id)
          /\ players[tracksRef[i].id] \notin started

\* C18: under every interleaving of ticks with removeTrack, sample selection,
\* added tracks and the unmount, no disposed node is within reach of a tick (the
\* players registry holds no disposed player, bassRef holds no unmounted
\* BassTrack), and no call of the last tick went to a disposed player or to the
\* synth of an unmounted BassTrack or PolyTrack.
C18_NoDisposedDispatch ==
    /\ \A id \in TrackIds :
          players[id] # NoNode => <<players[id], "player">> \notin disposed
    /\ bassRef # NoRef => bassInst[bassRef].mounted
    /\ \A d \in lastDispatch : <<d.player, "player">> \notin disposed
    /\ \A k \in 1..Len(synthLog) :
          IF synthLog[k].kind = "bass" THEN bassInst[synthLog[k].id].mounted
          ELSE polyInst[synthLog[k].id].mounted

\* a tick starts the player of a track whose earlier player was disposed
C18_Witness ==
    /\ lastOp = "tick"
    /\ \E d \in lastDispatch : \E x \in disposed :
          /\ x[2] = "player"
          /\ TidOf(x[1]) = tracksRef[d.pos].id

\* C19: the failure of one track's load, even after every retry, stays with that
\* track: it does not end initialization in failure, so the sequencer finishes
\* initializing and can start.
C19_FailureIsLocal ==
    \A l \in 1..Len(loads) : EndedInFailure(l) => initPc # "failed"

\* a load of track id is still on its way
InFlight(id) ==
    \E l \in 1..Len(loads) :
        loads[l].tid = id /\ loads[l].pc \in {"fetch", "pending", "backoff"}

\* the Drum tracks with a samplePath and no loaded player, and no load on its way
Unloaded ==
    {tracks[i].id : i \in {j \in 1..Len(tracks) :
        /\ tracks[j].type = "drum"
        /\ tracks[j].samplePath # NoPath
        /\ ~(players[tracks[j].id] # NoNode /\ players[tracks[j].id] \in loaded)
        /\ ~InFlight(tracks[j].id)}}

\* C20: a play() from the stopped state starts a load for every Drum track that
\* has a samplePath and no loaded player, a track whose earlier load failed
\* included, and for no other track; a track with a loaded player is not
\* reloaded. (A track whose load is still on its way is left out of the count.)
C20_PlayLoadsUnloaded ==
    [][lastOp' = "playLoads" =>
          {loads'[l].tid : l \in (Len(loads) + 1)..Len(loads')} = Unloaded]_vars

\* C21: the pattern of every mounted BassTrack and PolyTrack has as many rows as
\* the sequencer's step count, whatever step counts were chosen globally or in
\* the track's own Steps select, and after toggles and clearPattern.
C21_RowsFollowStepCount ==
    \A id \in TrackIds :
        /\ bassInst[id].mounted => Len(bassInst[id].pattern) = stepAmount
        /\ polyInst[id].mounted => Len(polyInst[id].pattern) = stepAmount

\* everything of a track but its pattern
Rest(t) ==
    [id |-> t.id, type |-> t.type, samplePath |-> t.samplePath, volume |-> t.volume,
     effects |-> t.effects, muted |-> t.muted, soloed |-> t.soloed,
     gated |-> t.gated, loadError |-> t.loadError, loadProgress |-> t.loadProgress]

\* C22: a change of the step count changes only stepAmount and the length of
\* each track's pattern: the ids and their order, every track's samplePath,
\* volume, effects, mute, solo and gate flags and load status stay, and so do the
\* four registries, the nodes, the loads and the transport.
C22_StepCountFrame ==
    [][lastOp' = "setStepCount" =>
          /\ stepAmount' # stepAmount
          /\ Len(tracks') = Len(tracks)
          /\ \A i \in 1..Len(tracks) :
                /\ Rest(tracks'[i]) = Rest(tracks[i])
                /\ Len(tracks'[i].pattern) = stepAmount'
          /\ <<players, filters, delays, reverbs>>' = <<players, filters, delays, reverbs>>
          /\ <<created, disposed, loaded, started, delayTime>>'
                 = <<created, disposed, loaded, started, delayTime>>
          /\ <<loads, transport, callbacks, repeatId, isPlaying, bpm>>'
                 = <<loads, transport, callbacks, repeatId, isPlaying, bpm>>]_vars

\* the step count was changed while a track showed a failed load, a player was
\* registered and the transport was running
C22_Witness ==
    /\ lastOp = "setStepCount"
    /\ stepAmount # InitialStepAmount
    /\ \E i \in 1..Len(tracks) : tracks[i].loadProgress.status = "failed"
    /\ \E id \in TrackIds : players[id] # NoNode
    /\ transport = "started"

\* the load status a track shows
Status(t) == <<t.loadError, t.loadProgress>>

\* C23: a press of a step button flips exactly the cell (track, step) and leaves
\* every track's load status as the loader last set it, also when a status update
\* of a load in flight is queued and not yet rendered: the update is not lost.
C23_ToggleKeepsStatus ==
    [][lastOp' = "toggleStep" =>
          /\ Len(tracks') = Len(tracks)
          /\ \A j \in 1..Len(tracks) :
                /\ Status(tracks'[j]) = Status(tracks[j])
                /\ Rest(tracks'[j]) = Rest(tracks[j])
                /\ Len(tracks'[j].pattern) = Len(tracks[j].pattern)
          /\ Cardinality({<<j, k>> \in (1..Len(tracks)) \X (1..stepAmount) :
                              /\ k <= Len(tracks[j].pattern)
                              /\ tracks'[j].pattern[k] # tracks[j].pattern[k]}) = 1]_vars

\* C24: after a change of a delay send or of the tempo, the delay of every track
\* that has an effect chain has the delay time (60 / bpm) / 2 * send level, for
\* the current bpm and the track's current delay send.
C24_DelayTimeFollows ==
    lastOp \in {"setEffect", "setBpm"} =>
        \A i \in 1..Len(tracks) :
            delays[tracks[i].id] # NoNode =>
                delayTime[delays[tracks[i].id]] = DelayMs(bpm, tracks[i].effects.delay)

\* C25: every write a slider of the effects panel makes to an audio node is a
\* ramp of 100 ms, never a jump; the recalculation of the delay time on a change
\* of the tempo reaches every registered delay.
C25_EffectsRamp ==
    /\ lastOp = "setEffect" => \A w \in paramLog : w.ramp = RampMs
    /\ lastOp = "setBpm" => {w.node : w \in paramLog} = RegisteredDelays

\* the range of the BPM input: min="20" max="300"
MinBpm == 20
MaxBpm == 300

\* C26: the bpm of the session is an integer of 20..300 in every state, whatever
\* text is entered in the BPM input, and so is the value written to the transport.
C26_BpmInRange ==
    /\ bpm \in MinBpm..MaxBpm
    /\ TransportBpm \in MinBpm..MaxBpm

\* C27: the ids of the tracks of the session are pairwise distinct in every state,
\* whatever tracks were added and removed, also when two tracks are added within
\* the same millisecond.
C27_IdsDistinct ==
    \A i, j \in 1..Len(tracks) : i # j => tracks[i].id # tracks[j].id

\* the positions in a log of the calls op made on the Bass synth
BassOps(log, op) ==
    {k \in 1..Len(log) : log[k].kind = "bass" /\ log[k].op = op}

\* C28: a playStep(step) of the Bass track with step inside the pattern attacks
\* the note of the lowest active degree of the row and no other note when the
\* row has an active degree; when it has none, it releases the note that sounds,
\* if there is one, and attacks nothing.
C28_BassLowestDegree ==
    [][lastOp' = "tick" =>
          \A i \in SynthCalls(tracksRef, ActiveTracks(tracksRef), currentStepRef) :
              tracksRef[i].type = "bass" =>
                  LET inst == bassInst[bassRef]
                      row == inst.pattern[currentStepRef + 1]
                      attacked == {synthLog'[k].note : k \in BassOps(synthLog', "attack")}
                      released == {synthLog'[k].note : k \in BassOps(synthLog', "release")}
                  IN IF \E d \in 1..Len(row) : row[d]
                     THEN /\ Cardinality(attacked) = 1
                          /\ \A d \in attacked :
                                /\ row[d]
                                /\ \A e \in 1..(d - 1) : ~row[e]
                                /\ bassInst'[bassRef].held = d
                     ELSE /\ attacked = {}
                          /\ inst.voice # 0 => inst.voice \in released
                          /\ bassInst'[bassRef].held = 0
                          /\ bassInst'[bassRef].voice = 0]_vars

\* a tick has played a Bass row with two active degrees
C28_Witness ==
    /\ lastOp = "tick" /\ bassRef # NoRef
    /\ \E k \in BassOps(synthLog, "attack") : synthLog[k].note = 1
    /\ Len(bassInst[bassRef].pattern) > LastStep
    /\ bassInst[bassRef].pattern[LastStep + 1][1]
    /\ bassInst[bassRef].pattern[LastStep + 1][MaxDegree + 1]

\* the positions in a log of the calls op made on the synth of the Poly track id
PolyOps(log, id, op) ==
    {k \in 1..Len(log) : log[k].kind = "poly" /\ log[k].id = id /\ log[k].op = op}

\* C29: a playStep(step) of a Poly track with step inside the pattern releases
\* the chord held, if there is one, before it attacks; it attacks the chord, in
\* one call scheduled 1 ms after the tick's time, exactly when a cell of the row
\* is active; the chord then recorded as held is the one attacked, or none.
C29_PolyChord ==
    [][lastOp' = "tick" =>
          \A i \in SynthCalls(tracksRef, ActiveTracks(tracksRef), currentStepRef) :
              tracksRef[i].type = "poly" =>
                  LET id == Target(tracksRef, i)
                      inst == polyInst[id]
                      row == inst.pattern[currentStepRef + 1]
                      attacks == PolyOps(synthLog', id, "attack")
                      releases == PolyOps(synthLog', id, "release")
                  IN /\ attacks # {} <=> \E d \in 1..Len(row) : row[d]
                     /\ inst.held # 0 =>
                           \E r \in releases :
                               /\ synthLog'[r].note = inst.held
                               /\ \A k \in attacks : r < k
                     /\ \A k1, k2 \in attacks :
                           k1 < k2 => \E r \in releases : k1 < r /\ r < k2
                     /\ \A k \in attacks :
                           /\ synthLog'[k].at = TimeOffsetMs
                           /\ polyInst'[id].held = synthLog'[k].note
                     /\ attacks = {} => polyInst'[id].held = 0]_vars

\* a tick has released the chord a Poly track held and attacked the next one
C29_Witness ==
    /\ lastOp = "tick"
    /\ \A i, j \in 1..Len(tracksRef) : i # j => tracksRef[i].id # tracksRef[j].id
    /\ \E id \in TrackIds :
          /\ polyInst[id].mounted /\ polyInst[id].held # 0
          /\ PolyOps(synthLog, id, "release") # {}
          /\ PolyOps(synthLog, id, "attack") # {}

\* C30: once the component is unmounted, every player, filter, delay and reverb
\* created in the session is disposed and the four registries are empty, whatever
\* loads, re-selections and removals came before.
C30_TeardownDisposesAll ==
    ~mounted =>
        /\ \A id \in TrackIds : Registered(id) = {}
        /\ created \subseteq disposed

\* the operations that run stopSequencer: the Stop button, the catch block of
\* startSequencer, the cleanup of the mount effect
StopOps == {"stop", "playFails", "unmount"}

\* what one stopSequencer leaves
Stopped ==
    /\ ~isPlaying /\ transport = "stopped" /\ repeatId = 0
    /\ currentStep = 0 /\ currentStepRef = 0
    /\ started \cap RegisteredPlayers = {}
    /\ bassRef # NoRef => bassInst[bassRef].held = 0
    /\ \A id \in polyRefs : polyInst[id].held = 0

\* C31: stopSequencer called when nothing plays and no tick callback is
\* registered leaves the sequencer stopped with currentStep 0; called in the
\* state a stopSequencer leaves, it changes nothing of what it writes: two stops
\* are one stop.
C31_StopIdempotent ==
    [][lastOp' \in StopOps =>
          /\ (~isPlaying /\ callbacks = {}) =>
                /\ ~isPlaying' /\ transport' = "stopped"
                /\ callbacks' = {} /\ repeatId' = 0
                /\ currentStep' = 0 /\ currentStepRef' = 0
          /\ Stopped =>
                /\ UNCHANGED <<isPlaying, transport, callbacks, repeatId,
                               currentStep, currentStepRef, started>>
                /\ bassRef' # NoRef => bassInst'[bassRef'].held = 0
                /\ \A id \in polyRefs' : polyInst'[id].held = 0]_vars

\* startSequencer's catch block has called stopSequencer while nothing played
C31_Witness ==
    /\ lastOp = "playFails" /\ Stopped /\ callbacks = {}
    /\ eventCount > 0

\* C32: a tick triggers the synth of a Bass track only if that track is in the
\* active set of the tick, and at most once, however many Bass tracks the session
\* has: a muted or solo-excluded Bass track is not triggered because another Bass
\* track is active.
C32_BassOnlyIfActive ==
    lastOp = "tick" =>
        \A k \in BassOps(synthLog, "attack") :
            /\ \E i \in lastActive :
                  tracksRef[i].type = "bass" /\ tracksRef[i].id = synthLog[k].id
            /\ \A j \in BassOps(synthLog, "attack") :
                  synthLog[j].id = synthLog[k].id => j = k

\* C33: a Bass or Poly track that is outside the active set of a tick (muted, or
\* excluded by another track's solo) has no note or chord sounding once that tick
\* has run: what it held when it left the active set is released by the next tick
\* at the latest.
C33_InactiveIsSilent ==
    lastOp = "tick" =>
        \A i \in (1..Len(tracksRef)) \ lastActive :
            /\ tracksRef[i].type = "bass" => bassInst[tracksRef[i].id].voice = 0
            /\ tracksRef[i].type = "poly" => polyInst[tracksRef[i].id].voice = 0

\* C34: every tick dispatched to an active Bass or Poly track releases the note
\* or chord the track holds, whatever the step and whatever the current length of
\* the track's pattern: a note attacked at step N is released at the next tick.
C34_TickReleasesHeld ==
    [][lastOp' = "tick" =>
          \A i \in ActiveTracks(tracksRef) :
              (/\ tracksRef[i].type \in {"bass", "poly"}
               /\ Target(tracksRef, i) # NoRef
               /\ TargetInst(tracksRef, i).mounted
               /\ TargetInst(tracksRef, i).held # 0)
                  => \E k \in 1..Len(synthLog') :
                        /\ synthLog'[k].kind = tracksRef[i].type
                        /\ synthLog'[k].id = Target(tracksRef, i)
                        /\ synthLog'[k].op = "release"
                        /\ synthLog'[k].note = TargetInst(tracksRef, i).held]_vars

\* C35: at most one tick callback is registered with the transport in every
\* state, and repeatId is the id of the one that is registered, whatever plays,
\* stops and unmount happened, also while a play is still starting.
C35_OneCallback ==
    /\ Cardinality(callbacks) <= 1
    /\ \A c \in callbacks : c.id = repeatId

\* C36: once the Sequencer is unmounted the transport is not running and no tick
\* fires, also when a play was awaiting the audio context or its loads at the
\* unmount and goes on afterwards.
C36_NoTickAfterTeardown ==
    ~mounted => transport = "stopped" /\ lastOp # "tick"

\* C37: getSampleUrl never rejects, whatever the path and whatever the storage
\* answers on every attempt: its promise resolves, with a URL or with null; a
\* static path (a full URL, '/samples/...', a bare name) resolves without a call
\* to the storage.
C37_UrlNeverRejects ==
    /\ urlCall.pc # "rejected"
    /\ urlCall.path \in StaticPaths =>
          /\ urlCall.storageCalls = 0
          /\ urlCall.pc = "resolved" /\ urlCall.value # << >>

\* C38: when some track is soloed and every soloed track is muted, the active set
\* of a tick is empty: the unmuted tracks that are not soloed stay excluded.
C38_MutedSoloSilences ==
    (/\ lastOp = "tick"
     /\ \E j \in 1..Len(tracksRef) : tracksRef[j].soloed
     /\ \A j \in 1..Len(tracksRef) : tracksRef[j].soloed => tracksRef[j].muted)
        => lastActive = {}

\* a tick has run with a muted soloed track beside an unmuted track without solo
C38_Witness ==
    /\ lastOp = "tick" /\ lastActive = {}
    /\ \E i, j \in 1..Len(tracksRef) :
          /\ tracksRef[i].soloed /\ tracksRef[i].muted
          /\ ~tracksRef[j].soloed /\ ~tracksRef[j].muted
    /\ \A j \in 1..Len(tracksRef) : tracksRef[j].soloed => tracksRef[j].muted
====
